---- MODULE Spec2Model ----
(***************************************************************************)
(* Redirect-stub generation of vite-plugin-dts-build ("Node10 Support").   *)
(* A package manifest's conditional exports are normalised, wildcard keys  *)
(* are expanded against the files on disk, a runtime (main) and a types    *)
(* path are selected per subpath, and a package.json redirect stub is      *)
(* planned and written for every subpath legacy resolution cannot reach.   *)
(*                                                                         *)
(* Strings are TLA+ strings, inspected character by character with SubSeq. *)
(* Paths follow node:path on a POSIX host (sep = "/").                     *)
(***************************************************************************)
EXTENDS Integers, Sequences, FiniteSets, TLC

VARIABLES
  pkg,      \* the parsed package.json: [exports, version, types]
  rootDir,  \* the root directory handed to computeRedirectStubs
  prefer,   \* StubPrefer: "import" | "require"
  disk,     \* the filesystem: absolute path -> [kind, data]
  tasks,    \* StubTaskResult[] returned by computeRedirectStubs
  cursor,   \* index of the next task writeRedirectStubs looks at
  warned,   \* stub directories printWarn reported as occupied by a file
  pc,       \* "start" | "planned" | "done" | "failed"
  run,      \* which call of generatePackageJsonRedirects this is (1, 2, ...)
  diskAtStart,  \* the filesystem as this call found it
  options,  \* WorkerData given to dts(): [mode, noEmit, dry]
  runState, \* dts(): [hasStartRun, canWriteRun]
  workerInstance,  \* dts(): the worker held by the plugin, 0 for undefined
  workers,  \* worker id -> thread state, events on their way to the main thread, listeners
  hook,     \* the hook call the bundler is awaiting: [name, w]
  bundler,  \* [calls, changes, updates, current]: calls made, changes reported, worker of this run
  manifests,  \* root directory -> the package.json found there: [type, exports]
  data,     \* PackageJson.data, the static cache: <<>> or <<[root, json]>>
  post,     \* dtsForEsm / dtsForCjs instance -> where its afterBuild is, what it listed
  dist,     \* emission directory -> declaration files still .d.ts, and those renamed
  answer    \* the last module-type query made of PackageJson: [rootDir, esm]

redirectVars == <<pkg, rootDir, prefer, disk, tasks, cursor, warned, pc, run, diskAtStart>>

pluginVars == <<options, runState, workerInstance, workers, hook, bundler>>

postVars == <<manifests, data, post, dist, answer>>

vars == <<redirectVars, pluginVars, postVars>>

----------------------------------------------------------------------------
(* Strings                                                                 *)

Ch(s, i) == SubSeq(s, i, i)

Slice(s, from, to) == SubSeq(s, from, to)

Min(S) == CHOOSE x \in S : \A y \in S : x <= y

Max(S) == CHOOSE x \in S : \A y \in S : x >= y

\* String.prototype.indexOf for a one-character needle, 1-based; 0 when absent.
IndexOf(s, c) ==
  LET I == {i \in 1..Len(s) : Ch(s, i) = c}
  IN IF I = {} THEN 0 ELSE Min(I)

\* String.prototype.lastIndexOf for a one-character needle, 1-based; 0 when absent.
LastIndexOf(s, c) ==
  LET I == {i \in 1..Len(s) : Ch(s, i) = c}
  IN IF I = {} THEN 0 ELSE Max(I)

Includes(s, c) == IndexOf(s, c) # 0

StartsWith(s, p) == Len(p) <= Len(s) /\ SubSeq(s, 1, Len(p)) = p

EndsWith(s, p) == Len(p) <= Len(s) /\ SubSeq(s, Len(s) - Len(p) + 1, Len(s)) = p

\* The replacement text String.prototype.replace makes of its second argument:
\* "$$" stands for "$", "$&" for the matched text, "$`" for what precedes the match
\* and "$'" for what follows it; any other "$" stands for itself.
RECURSIVE GetSubstitution(_, _, _, _)
GetSubstitution(by, matched, before, after) ==
  IF by = "" THEN ""
  ELSE IF Ch(by, 1) = "$" /\ Len(by) >= 2 /\ Ch(by, 2) \in {"$", "&", "`", "'"}
    THEN (CASE Ch(by, 2) = "$" -> "$"
            [] Ch(by, 2) = "&" -> matched
            [] Ch(by, 2) = "`" -> before
            [] Ch(by, 2) = "'" -> after)
         \o GetSubstitution(SubSeq(by, 3, Len(by)), matched, before, after)
  ELSE Ch(by, 1) \o GetSubstitution(Tail(by), matched, before, after)

\* String.prototype.replace with a string pattern: the first occurrence only.
ReplaceFirst(s, c, by) ==
  LET i == IndexOf(s, c)
  IN IF i = 0 THEN s
     ELSE SubSeq(s, 1, i - 1)
          \o GetSubstitution(by, c, SubSeq(s, 1, i - 1), SubSeq(s, i + 1, Len(s)))
          \o SubSeq(s, i + 1, Len(s))

RECURSIVE Split(_, _)
Split(s, c) ==
  LET i == IndexOf(s, c)
  IN IF i = 0 THEN <<s>>
     ELSE <<SubSeq(s, 1, i - 1)>> \o Split(SubSeq(s, i + 1, Len(s)), c)

RECURSIVE JoinWith(_, _)
JoinWith(segs, c) ==
  IF segs = <<>> THEN ""
  ELSE IF Len(segs) = 1 THEN segs[1]
  ELSE segs[1] \o c \o JoinWith(Tail(segs), c)

\* UTF-16 code-unit order of the characters that occur in condition names.
CharOrder == "$&*-./0123456789ABCDEFGHIJKLMNOPQRSTUVWXYZ_abcdefghijklmnopqrstuvwxyz"

CharRank(c) == IndexOf(CharOrder, c)

\* a < b in the order Array.prototype.sort uses without a comparator.
RECURSIVE StrLess(_, _)
StrLess(a, b) ==
  IF b = "" THEN FALSE
  ELSE IF a = "" THEN TRUE
  ELSE IF Ch(a, 1) = Ch(b, 1) THEN StrLess(Tail(a), Tail(b))
  ELSE CharRank(Ch(a, 1)) < CharRank(Ch(b, 1))

\* Array.prototype.sort() of distinct strings.
RECURSIVE SortStrings(_)
SortStrings(xs) ==
  IF xs = <<>> THEN <<>>
  ELSE LET m == CHOOSE i \in 1..Len(xs) : \A j \in 1..Len(xs) : j = i \/ StrLess(xs[i], xs[j])
       IN <<xs[m]>> \o SortStrings([k \in 1..(Len(xs) - 1) |-> IF k < m THEN xs[k] ELSE xs[k + 1]])

----------------------------------------------------------------------------
(* node:path (posix)                                                       *)

sep == "/"

\* process.cwd()
Cwd == "/work"

IsAbsolute(p) == StartsWith(p, "/")

\* normalizeString: drops "" and ".", resolves ".." against the segment before it.
RECURSIVE NormalizeSegs(_, _, _)
NormalizeSegs(segs, acc, allowAboveRoot) ==
  IF segs = <<>> THEN acc
  ELSE LET s == Head(segs) IN
    IF s = "" \/ s = "." THEN NormalizeSegs(Tail(segs), acc, allowAboveRoot)
    ELSE IF s = ".." THEN
      IF acc # <<>> /\ acc[Len(acc)] # ".."
        THEN NormalizeSegs(Tail(segs), SubSeq(acc, 1, Len(acc) - 1), allowAboveRoot)
      ELSE IF allowAboveRoot
        THEN NormalizeSegs(Tail(segs), Append(acc, ".."), allowAboveRoot)
      ELSE NormalizeSegs(Tail(segs), acc, allowAboveRoot)
    ELSE NormalizeSegs(Tail(segs), Append(acc, s), allowAboveRoot)

\* path.normalize
normalize(p) ==
  IF p = "" THEN "."
  ELSE LET abs   == IsAbsolute(p)
           trail == EndsWith(p, "/")
           body  == JoinWith(NormalizeSegs(Split(p, "/"), <<>>, ~abs), "/")
       IN IF body = ""
            THEN (IF abs THEN "/" ELSE IF trail THEN "./" ELSE ".")
          ELSE (IF abs THEN "/" ELSE "") \o body \o (IF trail THEN "/" ELSE "")

\* path.join(a, b)
join(a, b) ==
  IF a = "" /\ b = "" THEN "."
  ELSE IF a = "" THEN normalize(b)
  ELSE IF b = "" THEN normalize(a)
  ELSE normalize(a \o "/" \o b)

\* path.resolve(a, b): right to left until an absolute path is built, then cwd.
resolve(a, b) ==
  LET chain == IF IsAbsolute(b) THEN b
               ELSE IF IsAbsolute(a) THEN a \o "/" \o b
               ELSE Cwd \o "/" \o a \o "/" \o b
      body  == JoinWith(NormalizeSegs(Split(chain, "/"), <<>>, FALSE), "/")
  IN "/" \o body

\* path.relative(from, to)
relative(from, to) ==
  IF from = to THEN ""
  ELSE LET f  == NormalizeSegs(Split(resolve(from, ""), "/"), <<>>, FALSE)
           t  == NormalizeSegs(Split(resolve(to, ""), "/"), <<>>, FALSE)
           C  == {n \in 0..Min({Len(f), Len(t)}) : \A i \in 1..n : f[i] = t[i]}
           n  == Max(C)
           up == [i \in 1..(Len(f) - n) |-> ".."]
       IN JoinWith(up \o SubSeq(t, n + 1, Len(t)), "/")

----------------------------------------------------------------------------
(* JSON values: ExportsField, ExportTarget, Conditions, manifest fields    *)
(*                                                                         *)
(* A value is [t, s, c]: t the runtime type, s the text of a string, c the *)
(* members in insertion order, each [k, v] (k = "" for array elements).    *)
(* No key of the model is integer-like, so Object.keys is insertion order. *)

Str(x) == [t |-> "string", s |-> x, c |-> <<>>]

Arr(items) == [t |-> "array", s |-> "", c |-> [i \in 1..Len(items) |-> [k |-> "", v |-> items[i]]]]

Obj(members) == [t |-> "object", s |-> "", c |-> members]

Null == [t |-> "null", s |-> "", c |-> <<>>]

Undefined == [t |-> "undefined", s |-> "", c |-> <<>>]

\* a number other than 0
Num == [t |-> "number", s |-> "", c |-> <<>>]

KV(key, val) == [k |-> key, v |-> val]

IsString(x) == x.t = "string"

IsArray(x) == x.t = "array"

\* isPlainObject: !!value && typeof value === "object" && !Array.isArray(value)
isPlainObject(x) == x.t = "object"

\* ToBoolean
Truthy(x) == x.t \in {"object", "array", "number"} \/ (x.t = "string" /\ x.s # "")

\* Object.keys
Keys(o) == [i \in 1..Len(o.c) |-> o.c[i].k]

\* key in obj
HasKey(o, key) == \E i \in 1..Len(o.c) : o.c[i].k = key

\* obj[key]
Get(o, key) ==
  IF HasKey(o, key) THEN o.c[CHOOSE i \in 1..Len(o.c) : o.c[i].k = key].v ELSE Undefined

\* obj[key] = val: an existing key keeps its place, a new one goes last.
Put(members, key, val) ==
  IF \E i \in 1..Len(members) : members[i].k = key
    THEN [i \in 1..Len(members) |-> IF members[i].k = key THEN KV(key, val) ELSE members[i]]
  ELSE Append(members, KV(key, val))

\* An optional string (string | undefined): <<>> is undefined.
None == <<>>

Some(x) == <<x>>

----------------------------------------------------------------------------
(* Conditional branch resolver                                             *)

\* branchOrder with the two preferences' sequences exchanged
BranchOrderOf_Swapped(pref) ==
  IF pref = "import"
    THEN <<"require", "node", "default", "import", "browser">>
  ELSE <<"import", "node", "default", "require", "browser">>

\* branchOrder with browser ranked where node belongs
BranchOrderOf_BrowserFirst(pref) ==
  IF pref = "import"
    THEN <<"import", "browser", "default", "require", "node">>
  ELSE <<"require", "browser", "default", "import", "node">>

\* branchOrder of computeRedirectStubs
BranchOrderOf(pref) ==
  IF pref = "import"
    THEN <<"import", "node", "default", "require", "browser">>
  ELSE <<"require", "node", "default", "import", "browser">>

InSeq(x, xs) == \E i \in 1..Len(xs) : xs[i] = x

\* getRemainingOrderedKeys that forgets to exclude "types"
getRemainingOrderedKeys_TypesKept(obj, branchOrder) ==
  LET exclude(key) == InSeq(key, branchOrder) \/ key = "default"
      keep(key)    == ~exclude(key)
  IN SortStrings(SelectSeq(Keys(obj), keep))

getRemainingOrderedKeys_Unsorted(obj, branchOrder) ==
  LET exclude(key) == InSeq(key, branchOrder) \/ key = "default" \/ key = "types"
      keep(key)    == ~exclude(key)
  IN SelectSeq(Keys(obj), keep)

getRemainingOrderedKeys(obj, branchOrder) ==
  LET exclude(key) == InSeq(key, branchOrder) \/ key = "default" \/ key = "types"
      keep(key)    == ~exclude(key)
  IN SortStrings(SelectSeq(Keys(obj), keep))

\* pickMain yields <<>> (undefined) or <<[path, branch]>>, branch an optional string.
RECURSIVE pickMain(_, _, _)
RECURSIVE pickMainArray(_, _, _, _)
RECURSIVE pickMainBranches(_, _, _, _)
RECURSIVE pickMainRemaining(_, _, _, _)

\* the loop over an array's candidates, from index i
pickMainArray(exportTarget, branchOrder, inheritedBranch, i) ==
  IF i > Len(exportTarget.c) THEN <<>>
  ELSE LET result == pickMain(exportTarget.c[i].v, branchOrder, inheritedBranch)
       IN IF result # <<>> THEN result
          ELSE pickMainArray(exportTarget, branchOrder, inheritedBranch, i + 1)

\* 3) remaining keys in deterministic order, from index i of keys
pickMainRemaining(exportTarget, branchOrder, keys, i) ==
  IF i > Len(keys) THEN <<>>
  ELSE LET propKey   == keys[i]
           propValue == Get(exportTarget, propKey)
       IN IF IsString(propValue)
            THEN <<[path |-> propValue.s, branch |-> Some(propKey)]>>
          ELSE LET result == pickMain(propValue, branchOrder, Some(propKey))
               IN IF result # <<>> /\ result[1].path # "" THEN result
                  ELSE pickMainRemaining(exportTarget, branchOrder, keys, i + 1)

\* 1) condition branches in priority order, from index i; then 2) and 3)
pickMainBranches(exportTarget, branchOrder, inheritedBranch, i) ==
  IF i > Len(branchOrder) THEN
    LET explicitDefault == Get(exportTarget, "default")
    IN IF IsString(explicitDefault)
         THEN <<[path |-> explicitDefault.s, branch |-> inheritedBranch]>>
       ELSE pickMainRemaining(exportTarget, branchOrder,
                              getRemainingOrderedKeys(exportTarget, branchOrder), 1)
  ELSE LET condition == branchOrder[i]
           result    == IF HasKey(exportTarget, condition)
                          THEN pickMain(Get(exportTarget, condition), branchOrder, Some(condition))
                        ELSE <<>>
       IN IF result # <<>> THEN result
          ELSE pickMainBranches(exportTarget, branchOrder, inheritedBranch, i + 1)

pickMain(exportTarget, branchOrder, inheritedBranch) ==
  IF IsString(exportTarget) THEN <<[path |-> exportTarget.s, branch |-> inheritedBranch]>>
  ELSE IF IsArray(exportTarget) THEN pickMainArray(exportTarget, branchOrder, inheritedBranch, 1)
  ELSE IF isPlainObject(exportTarget) THEN pickMainBranches(exportTarget, branchOrder, inheritedBranch, 1)
  ELSE <<>>

\* pickTypes yields an optional string.
RECURSIVE pickTypes(_, _, _)
RECURSIVE pickTypesArray(_, _, _, _)
RECURSIVE pickTypesRemaining(_, _, _, _, _)
RECURSIVE pickTypesDive(_, _, _, _)

\* the loop over an array's candidates, from index i
pickTypesArray(exportTarget, chosenBranch, branchOrder, i) ==
  IF i > Len(exportTarget.c) THEN None
  ELSE LET found == pickTypes(exportTarget.c[i].v, chosenBranch, branchOrder)
       IN IF found # None /\ found[1] # "" THEN found
          ELSE pickTypesArray(exportTarget, chosenBranch, branchOrder, i + 1)

\* step 1 of pickTypes without the array case
pickTypesChosen_ObjectOnly(exportTarget, chosenBranch) ==
  IF chosenBranch # None /\ chosenBranch[1] # "" /\ Truthy(Get(exportTarget, chosenBranch[1]))
    THEN LET chosenBranchValueRaw == Get(exportTarget, chosenBranch[1])
         IN IF isPlainObject(chosenBranchValueRaw) /\ IsString(Get(chosenBranchValueRaw, "types"))
              THEN Some(Get(chosenBranchValueRaw, "types").s)
            ELSE None
  ELSE None

\* 1) types inside chosen branch
pickTypesChosen(exportTarget, chosenBranch) ==
  IF chosenBranch # None /\ chosenBranch[1] # "" /\ Truthy(Get(exportTarget, chosenBranch[1]))
    THEN LET chosenBranchValueRaw == Get(exportTarget, chosenBranch[1])
         IN IF IsArray(chosenBranchValueRaw)
              THEN LET hit(i) == /\ isPlainObject(chosenBranchValueRaw.c[i].v)
                                 /\ IsString(Get(chosenBranchValueRaw.c[i].v, "types"))
                       I == {i \in 1..Len(chosenBranchValueRaw.c) : hit(i)}
                   IN IF I = {} THEN None
                      ELSE Some(Get(chosenBranchValueRaw.c[Min(I)].v, "types").s)
            ELSE IF isPlainObject(chosenBranchValueRaw) /\ IsString(Get(chosenBranchValueRaw, "types"))
              THEN Some(Get(chosenBranchValueRaw, "types").s)
            ELSE None
  ELSE None

\* 2) top-level types
pickTypesTop(exportTarget) ==
  IF IsString(Get(exportTarget, "types")) THEN Some(Get(exportTarget, "types").s) ELSE None

\* 3) other branches in priority order
pickTypesOther(exportTarget, chosenBranch, branchOrder) ==
  LET hit(i) == /\ Some(branchOrder[i]) # chosenBranch
                /\ isPlainObject(Get(exportTarget, branchOrder[i]))
                /\ IsString(Get(Get(exportTarget, branchOrder[i]), "types"))
      I == {i \in 1..Len(branchOrder) : hit(i)}
  IN IF I = {} THEN None ELSE Some(Get(Get(exportTarget, branchOrder[Min(I)]), "types").s)

\* 4a) remaining keys (alphabetical), from index i of keys
pickTypesRemaining(exportTarget, chosenBranch, branchOrder, keys, i) ==
  IF i > Len(keys) THEN None
  ELSE LET found == pickTypes(Get(exportTarget, keys[i]), chosenBranch, branchOrder)
       IN IF found # None /\ found[1] # "" THEN found
          ELSE pickTypesRemaining(exportTarget, chosenBranch, branchOrder, keys, i + 1)

\* 4b) dive into branchOrder keys recursively, from index i
pickTypesDive(exportTarget, chosenBranch, branchOrder, i) ==
  IF i > Len(branchOrder) THEN None
  ELSE LET nestedValue == Get(exportTarget, branchOrder[i])
           found == IF isPlainObject(nestedValue)
                      THEN pickTypes(nestedValue, chosenBranch, branchOrder)
                    ELSE None
       IN IF found # None /\ found[1] # "" THEN found
          ELSE pickTypesDive(exportTarget, chosenBranch, branchOrder, i + 1)

pickTypes(exportTarget, chosenBranch, branchOrder) ==
  IF IsString(exportTarget) THEN None
  ELSE IF IsArray(exportTarget) THEN pickTypesArray(exportTarget, chosenBranch, branchOrder, 1)
  ELSE IF isPlainObject(exportTarget) THEN
    LET s1 == pickTypesChosen(exportTarget, chosenBranch)
        s2 == pickTypesTop(exportTarget)
        s3 == pickTypesOther(exportTarget, chosenBranch, branchOrder)
        s4 == pickTypesRemaining(exportTarget, chosenBranch, branchOrder,
                                 getRemainingOrderedKeys(exportTarget, branchOrder), 1)
    IN IF s1 # None THEN s1
       ELSE IF s2 # None THEN s2
       ELSE IF s3 # None THEN s3
       ELSE IF s4 # None THEN s4
       ELSE pickTypesDive(exportTarget, chosenBranch, branchOrder, 1)
  ELSE None

\* selectTargets: [main, types], both optional strings
selectTargets(entry, branchOrder, rootTypes) ==
  LET mainPick     == pickMain(entry, branchOrder, None)
      chosenBranch == IF mainPick = <<>> THEN None ELSE mainPick[1].branch
      found        == pickTypes(entry, chosenBranch, branchOrder)
      typesPick    == IF found # None THEN found ELSE rootTypes
  IN [main  |-> IF mainPick = <<>> THEN None ELSE Some(mainPick[1].path),
      types |-> typesPick]

----------------------------------------------------------------------------
(* The filesystem (node:fs/promises)                                       *)
(*                                                                         *)
(* disk maps the absolute path of every existing entry to [kind, data],    *)
(* kind "file" or "dir", data a file's text.  Every entry's parent         *)
(* directory exists too.                                                   *)

Dirname(p) == LET i == LastIndexOf(p, "/") IN IF i <= 1 THEN "/" ELSE SubSeq(p, 1, i - 1)

Basename(p) == SubSeq(p, LastIndexOf(p, "/") + 1, Len(p))

\* the path and every directory above it, below "/"
RECURSIVE Ancestors(_)
Ancestors(p) == IF p = "/" \/ p = "" THEN {} ELSE {p} \cup Ancestors(Dirname(p))

\* stat(p): "file", "dir", or "error" (ENOENT, ENOTDIR)
stat(d, p) ==
  LET q == resolve(p, "")
  IN IF q = "/" THEN "dir"
     ELSE IF q \notin DOMAIN d THEN "error"
     ELSE IF d[q].kind = "file" /\ EndsWith(p, "/") THEN "error"
     ELSE d[q].kind

\* names in ascending order
RECURSIVE SortedNames(_)
SortedNames(S) ==
  IF S = {} THEN <<>>
  ELSE LET m == CHOOSE x \in S : \A y \in S : x = y \/ StrLess(x, y)
       IN <<m>> \o SortedNames(S \ {m})

\* orders in which a directory may list its entries (the order is the file
\* system's): by name, and the reverse
Orders == {"asc", "desc"}

\* readdir(dir, { withFileTypes: true }): the entries of dir, in the order ord
readdir(d, dir, ord) ==
  LET inside == {p \in DOMAIN d : Dirname(p) = dir /\ p # dir}
      byName == SortedNames({Basename(p) : p \in inside})
      names  == IF ord = "asc" THEN byName
                ELSE [i \in 1..Len(byName) |-> byName[Len(byName) + 1 - i]]
  IN [i \in 1..Len(names) |->
        [name |-> names[i],
         kind |-> d[(IF dir = "/" THEN "" ELSE dir) \o "/" \o names[i]].kind]]

\* mkdir(p, { recursive: true }) succeeds unless a file is in the way
mkdirOk(d, p) == \A a \in Ancestors(resolve(p, "")) : a \in DOMAIN d => d[a].kind = "dir"

mkdir(d, p) ==
  LET made == Ancestors(resolve(p, ""))
  IN [q \in DOMAIN d \cup made |-> IF q \in DOMAIN d THEN d[q] ELSE [kind |-> "dir", data |-> ""]]

\* writeFile(p, text) succeeds when p's directory exists and p is no directory
writeFileOk(d, p) ==
  /\ stat(d, Dirname(resolve(p, ""))) = "dir"
  /\ stat(d, p) # "dir"

writeFile(d, p, text) ==
  [q \in DOMAIN d \cup {resolve(p, "")} |->
     IF q = resolve(p, "") THEN [kind |-> "file", data |-> text] ELSE d[q]]

----------------------------------------------------------------------------
(* Manifest normaliser and wildcard expander                               *)

\* normalizeExports that files a bare string or array under "./index"
normalizeExports_RootAsIndex(exportsField) ==
  IF ~Truthy(exportsField) THEN Null
  ELSE IF IsString(exportsField) \/ IsArray(exportsField) THEN Obj(<<KV("./index", exportsField)>>)
  ELSE IF isPlainObject(exportsField) THEN exportsField
  ELSE Null

\* normalizeExports: an ExportsMap, or Null
normalizeExports(exportsField) ==
  IF ~Truthy(exportsField) THEN Null
  ELSE IF IsString(exportsField) \/ IsArray(exportsField) THEN Obj(<<KV(".", exportsField)>>)
  ELSE IF isPlainObject(exportsField) THEN exportsField
  ELSE Null

\* String.prototype.substring(from, to) on 0-based offsets: swaps when from > to
Substring(s, from, to) ==
  IF from <= to THEN SubSeq(s, from + 1, to) ELSE SubSeq(s, to + 1, from)

\* inferTokensFromPattern that stops at the first entry that matches
inferTokensFromPattern_FirstOnly(d, pattern, root, ord) ==
  LET starIndex == IndexOf(pattern, "*") IN
  IF starIndex = 0 THEN <<>>
  ELSE
    LET before     == SubSeq(pattern, 1, starIndex - 1)
        after      == SubSeq(pattern, starIndex + 1, Len(pattern))
        lastSlash  == LastIndexOf(before, "/")
        dirPart    == IF lastSlash = 0 THEN "." ELSE SubSeq(before, 1, lastSlash - 1)
        filePrefix == IF lastSlash = 0 THEN before ELSE SubSeq(before, lastSlash + 1, Len(before))
        fileSuffix == IF Includes(after, "/") THEN SubSeq(after, 1, IndexOf(after, "/") - 1) ELSE after
        absDir     == resolve(root, IF StartsWith(dirPart, "./") THEN SubSeq(dirPart, 3, Len(dirPart)) ELSE dirPart)
    IN IF stat(d, absDir) # "dir" THEN <<>>
       ELSE
         LET entries == readdir(d, absDir, ord)
             core(name) == Substring(name, Len(filePrefix), Len(name) - Len(fileSuffix))
             ok(entry) == /\ entry.kind = "file"
                          /\ StartsWith(entry.name, filePrefix)
                          /\ EndsWith(entry.name, fileSuffix)
                          /\ Len(core(entry.name)) # 0
             kept == SelectSeq(entries, ok)
         IN IF kept = <<>> THEN <<>> ELSE <<core(kept[1].name)>>

\* Tokens a pattern string matches on disk, in readdir order (duplicates kept).
inferTokensFromPattern(d, pattern, root, ord) ==
  LET starIndex == IndexOf(pattern, "*") IN
  IF starIndex = 0 THEN <<>>
  ELSE
    LET before     == SubSeq(pattern, 1, starIndex - 1)
        after      == SubSeq(pattern, starIndex + 1, Len(pattern))
        lastSlash  == LastIndexOf(before, "/")
        dirPart    == IF lastSlash = 0 THEN "." ELSE SubSeq(before, 1, lastSlash - 1)
        filePrefix == IF lastSlash = 0 THEN before ELSE SubSeq(before, lastSlash + 1, Len(before))
        fileSuffix == IF Includes(after, "/") THEN SubSeq(after, 1, IndexOf(after, "/") - 1) ELSE after
        absDir     == resolve(root, IF StartsWith(dirPart, "./") THEN SubSeq(dirPart, 3, Len(dirPart)) ELSE dirPart)
    IN IF stat(d, absDir) # "dir" THEN <<>>
       ELSE
         LET entries == readdir(d, absDir, ord)
             core(name) == Substring(name, Len(filePrefix), Len(name) - Len(fileSuffix))
             ok(entry) == /\ entry.kind = "file"
                          /\ StartsWith(entry.name, filePrefix)
                          /\ EndsWith(entry.name, fileSuffix)
                          /\ Len(core(entry.name)) # 0
             kept == SelectSeq(entries, ok)
         IN [i \in 1..Len(kept) |-> core(kept[i].name)]

\* acc.add(t) for every t of ts: a Set keeps first-insertion order
RECURSIVE AddAll(_, _)
AddAll(acc, ts) ==
  IF ts = <<>> THEN acc
  ELSE AddAll(IF InSeq(Head(ts), acc) THEN acc ELSE Append(acc, Head(ts)), Tail(ts))

RECURSIVE collectTokensFromExportTarget(_, _, _, _, _)
RECURSIVE collectTokensFromMembers(_, _, _, _, _, _)

collectTokensFromMembers(d, target, root, ord, acc, i) ==
  IF i > Len(target.c) THEN acc
  ELSE collectTokensFromMembers(d, target, root, ord,
         collectTokensFromExportTarget(d, target.c[i].v, root, ord, acc), i + 1)

collectTokensFromExportTarget(d, target, root, ord, acc) ==
  IF IsString(target)
    THEN IF Includes(target.s, "*")
           THEN AddAll(acc, inferTokensFromPattern(d, target.s, root, ord)) ELSE acc
  ELSE IF IsArray(target) \/ isPlainObject(target)
    THEN collectTokensFromMembers(d, target, root, ord, acc, 1)
  ELSE acc

RECURSIVE replaceStarInTarget(_, _)
replaceStarInTarget(target, token) ==
  IF IsString(target)
    THEN IF Includes(target.s, "*") THEN Str(ReplaceFirst(target.s, "*", token)) ELSE target
  ELSE IF IsArray(target) \/ isPlainObject(target)
    THEN [target EXCEPT !.c = [i \in 1..Len(target.c) |->
                                 KV(target.c[i].k, replaceStarInTarget(target.c[i].v, token))]]
  ELSE target

\* the loop over the tokens of one wildcard key
RECURSIVE expandTokens(_, _, _, _)
expandTokens(result, key, target, tokens) ==
  IF tokens = <<>> THEN result
  ELSE expandTokens(Put(result, ReplaceFirst(key, "*", Head(tokens)),
                        replaceStarInTarget(target, Head(tokens))),
                    key, target, Tail(tokens))

\* the loop over Object.entries(exp), from index i; result is the member list so far
RECURSIVE expandEntries(_, _, _, _, _, _)
expandEntries(d, exp, root, ord, result, i) ==
  IF i > Len(exp.c) THEN result
  ELSE LET key    == exp.c[i].k
           target == exp.c[i].v
       IN IF ~Includes(key, "*")
            THEN expandEntries(d, exp, root, ord, Put(result, key, target), i + 1)
          ELSE expandEntries(d, exp, root, ord,
                 expandTokens(result, key, target,
                              collectTokensFromExportTarget(d, target, root, ord, <<>>)),
                 i + 1)

expandWildCardExports(d, exp, root, ord) == Obj(expandEntries(d, exp, root, ord, <<>>, 1))

----------------------------------------------------------------------------
(* Legacy-resolvability classifier and redirect planner                    *)

\* p.replace(LEADING_DOT_SLASH_RE, "")
normalizeSubpath(p) == IF StartsWith(p, "./") THEN SubSeq(p, 3, Len(p)) ELSE p

\* p.replace(TRAILING_EXT_RE, ""): a final ".ext" with no "." or "/" in ext
stripExt(p) ==
  LET dot   == LastIndexOf(p, ".")
      slash == LastIndexOf(p, "/")
  IN IF dot # 0 /\ dot > slash /\ dot < Len(p) THEN SubSeq(p, 1, dot - 1) ELSE p

exportKeyDirectMatch(key, value) == normalizeSubpath(key) = normalizeSubpath(value)

Node10Exts == <<"js", "cjs", "mjs", "json", "node">>

\* isAlreadyNode10Resolved without the key/index.ext candidates
isAlreadyNode10Resolved_NoIndex(key, main) ==
  LET keyBase    == normalizeSubpath(key)
      mainBase   == normalizeSubpath(main)
      candidates == {keyBase \o "." \o Node10Exts[i] : i \in 1..Len(Node10Exts)} \cup {keyBase}
  IN \/ mainBase \in candidates
     \/ stripExt(mainBase) = keyBase
     \/ stripExt(mainBase) = stripExt(keyBase)

isAlreadyNode10Resolved(key, main) ==
  LET keyBase    == normalizeSubpath(key)
      mainBase   == normalizeSubpath(main)
      candidates == {keyBase \o "." \o Node10Exts[i] : i \in 1..Len(Node10Exts)}
                    \cup {keyBase \o "/index." \o Node10Exts[i] : i \in 1..Len(Node10Exts)}
                    \cup {keyBase}
  IN \/ mainBase \in candidates
     \/ stripExt(mainBase) = keyBase
     \/ stripExt(mainBase) = stripExt(keyBase)

\* isStubAbleKey without the "./package.json" test
isStubAbleKey_PackageJson(key) ==
  /\ StartsWith(key, "./")
  /\ key # "." /\ key # "./"
  /\ ~Includes(key, "*")

isStubAbleKey(key) ==
  /\ StartsWith(key, "./")
  /\ key # "." /\ key # "./"
  /\ key # "./package.json"
  /\ ~Includes(key, "*")

\* toPosixRelative that prefixes "./" whenever the path does not start with "./"
toPosixRelative_AlwaysDot(fromDir, toAbs) ==
  LET rel   == relative(fromDir, toAbs)
      posix == JoinWith(Split(rel, sep), "/")
  IN IF ~StartsWith(posix, "./") /\ ~StartsWith(posix, "/") THEN "./" \o posix ELSE posix

\* Stub directory based relative path (POSIX slash)
toPosixRelative(fromDir, toAbs) ==
  LET rel   == relative(fromDir, toAbs)
      posix == JoinWith(Split(rel, sep), "/")
  IN IF ~StartsWith(posix, ".") /\ ~StartsWith(posix, "/") THEN "./" \o posix ELSE posix

\* One pass of the loop body of computeRedirectStubs: the tasks it pushes (none or one).
\* A task is [key, stubDir, stubJsonPath, stub]; stub is <<>> for null, else <<StubJson>>.
\* key is not a field of StubTaskResult: it records the export key the task was planned from.
planEntry(key, entry, root, branchOrder, rootTypes, packageVersion) ==
  IF ~isStubAbleKey(key) THEN <<>>
  ELSE IF IsString(entry) /\ exportKeyDirectMatch(key, entry.s) THEN <<>>
  ELSE
    LET picked       == selectTargets(entry, branchOrder, rootTypes)
        subDirRel    == normalizeSubpath(key)
        stubDir      == join(root, subDirRel)
        stubJsonPath == join(stubDir, "package.json")
    IN IF picked.main = None \/ picked.main[1] = ""
         THEN <<[key |-> key, stubDir |-> stubDir, stubJsonPath |-> stubJsonPath, stub |-> <<>>]>>
       ELSE IF isAlreadyNode10Resolved(key, picked.main[1]) THEN <<>>
       ELSE
         LET mainAbs == resolve(root, picked.main[1])
             mainRel == toPosixRelative(stubDir, mainAbs)
             types   == IF picked.types # None /\ picked.types[1] # ""
                          THEN Some(toPosixRelative(stubDir, resolve(root, picked.types[1])))
                        ELSE None
         IN <<[key |-> key, stubDir |-> stubDir, stubJsonPath |-> stubJsonPath,
               stub |-> <<[private |-> TRUE, main |-> mainRel,
                           version |-> packageVersion, types |-> types]>>]>>

\* the loop over Object.entries(exp), from index i
RECURSIVE planEntries(_, _, _, _, _, _)
planEntries(exp, root, branchOrder, rootTypes, packageVersion, i) ==
  IF i > Len(exp.c) THEN <<>>
  ELSE planEntry(exp.c[i].k, exp.c[i].v, root, branchOrder, rootTypes, packageVersion)
       \o planEntries(exp, root, branchOrder, rootTypes, packageVersion, i + 1)

\* the manifest field taken without the typeof test
StringOrUndefined_Unchecked(v) == IF v.t = "undefined" THEN None ELSE Some(v.s)

\* typeof v === "string" ? v : undefined
StringOrUndefined(v) == IF IsString(v) THEN Some(v.s) ELSE None

computeRedirectStubs(d, p, root, pref, ord) ==
  LET expNormalized == normalizeExports(p.exports)
  IN IF expNormalized = Null THEN <<>>
     ELSE planEntries(expandWildCardExports(d, expNormalized, root, ord), root,
                      BranchOrderOf(pref),
                      StringOrUndefined(p.types), StringOrUndefined(p.version), 1)

----------------------------------------------------------------------------
(* Redirect writer                                                         *)

Quoted(x) == "\"" \o x \o "\""

\* JSON.stringify(stub, null, 2) + "\n": members in insertion order (private, main,
\* version, types), undefined ones left out.  No path of the model needs escaping.
StubJsonText(stub) ==
  LET members == <<"\"private\": true", "\"main\": " \o Quoted(stub.main)>>
                 \o (IF stub.version # None THEN <<"\"version\": " \o Quoted(stub.version[1])>> ELSE <<>>)
                 \o (IF stub.types # None THEN <<"\"types\": " \o Quoted(stub.types[1])>> ELSE <<>>)
  IN "{\n  " \o JoinWith(members, ",\n  ") \o "\n}" \o "\n"

----------------------------------------------------------------------------
(* Inputs: manifests, root directories, preferences and disks              *)

\* keys a model Conditions object may carry at its top level
MaxTopKeys == 2

\* elements of a model array target
MaxArrayLen == 2

\* entries of a model exports map of plain string targets
MaxEntries == 2

\* calls of generatePackageJsonRedirects in succession
MaxRuns == 2

\* files the model puts under the directories wildcard patterns point into
MaxFiles == 2

\* condition names, in the order the model's objects list them
KeyOrder == <<"types", "deno", "import", "browser", "require", "bun", "node", "default">>

CondDir(c) == IF c = "import" THEN "esm" ELSE IF c = "require" THEN "cjs"
              ELSE IF c = "default" THEN "dist" ELSE c

\* the runtime file and the declaration file a condition points at
RuntimePath(c) == "./" \o CondDir(c) \o "/sub" \o (IF c = "require" THEN ".cjs" ELSE ".js")

TypesPath(c) == "./" \o CondDir(c) \o "/sub.d" \o (IF c = "require" THEN ".cts" ELSE ".ts")

\* what a condition's value looks like
Template(c, kind) ==
  CASE kind = "path"      -> Str(IF c = "types" THEN TypesPath(c) ELSE RuntimePath(c))
    [] kind = "typed"     -> Obj(<<KV("types", Str(TypesPath(c))), KV("default", Str(RuntimePath(c)))>>)
    [] kind = "untyped"   -> Obj(<<KV("default", Str(RuntimePath(c)))>>)
    [] kind = "typesOnly" -> Obj(<<KV("types", Str(TypesPath(c)))>>)
    [] kind = "list"      -> Arr(<<Str(RuntimePath(c)), Obj(<<KV("types", Str(TypesPath(c)))>>)>>)
    [] kind = "nested"    -> Obj(<<KV("import", Obj(<<KV("types", Str("./" \o CondDir(c) \o "/esm.d.ts")),
                                                        KV("default", Str("./" \o CondDir(c) \o "/esm.js"))>>)),
                                   KV("require", Str("./" \o CondDir(c) \o "/cjs.cjs"))>>)
    [] kind = "empty"     -> Str("")
    [] kind = "null"      -> Null

KindsOf(c) ==
  CASE c = "import"  -> {"path", "typed", "untyped", "typesOnly", "list", "empty"}
    [] c = "require" -> {"path", "typed", "typesOnly", "list"}
    [] c = "node"    -> {"path", "typed", "nested"}
    [] c = "browser" -> {"path"}
    [] c = "default" -> {"path", "typed", "null"}
    [] c = "types"   -> {"path"}
    [] c = "deno"    -> {"path", "typesOnly"}
    [] c = "bun"     -> {"path", "typed"}

AllKinds == {"path", "typed", "untyped", "typesOnly", "list", "nested", "empty", "null"}

CondKeys == {KeyOrder[i] : i \in 1..Len(KeyOrder)}

\* a shape gives a kind to each of at most MaxTopKeys condition names
Shapes ==
  UNION {{f \in [K -> AllKinds] : \A c \in K : f[c] \in KindsOf(c)} :
           K \in {K \in SUBSET CondKeys : Cardinality(K) <= MaxTopKeys}}

Tree(f) ==
  LET present(c) == c \in DOMAIN f
      keys == SelectSeq(KeyOrder, present)
  IN Obj([i \in 1..Len(keys) |-> KV(keys[i], Template(keys[i], f[keys[i]]))])

\* elements of array targets
Elements ==
  {Str(RuntimePath("default")), Str(""), Null,
   Obj(<<KV("import", Str(RuntimePath("import")))>>),
   Obj(<<KV("require", Template("require", "typed"))>>),
   Obj(<<KV("import", Template("import", "typesOnly"))>>),
   Obj(<<KV("types", Str(TypesPath("types")))>>)}

ArrayTargets ==
  UNION {{Arr(xs) : xs \in [1..n -> Elements]} : n \in 1..MaxArrayLen}

Prefers == {"import", "require"}

File(text) == [kind |-> "file", data |-> text]

Dir == [kind |-> "dir", data |-> ""]

\* a disk holding the given files (path -> text) and directories, and all above them
DiskOf(files, dirs) ==
  LET all == UNION {Ancestors(q) : q \in DOMAIN files \cup dirs}
  IN [q \in all |-> IF q \in DOMAIN files THEN File(files[q]) ELSE Dir]

NoFiles == [q \in {} |-> ""]

Manifest(exports, version, types) == [exports |-> exports, version |-> version, types |-> types]

Input(p, root, pref, d) == [pkg |-> p, rootDir |-> root, prefer |-> pref, disk |-> d]

\* one subpath with a Conditions or array target, resolved under both preferences
ResolutionInputs ==
  {Input(Manifest(Obj(<<KV("./sub", t)>>), Str("1.2.3"), Undefined), "/proj", pref,
         DiskOf(NoFiles, {"/proj"})) :
     t \in {Tree(f) : f \in Shapes} \cup ArrayTargets, pref \in Prefers}

Dual == Obj(<<KV("import", Str(RuntimePath("import"))), KV("require", Str(RuntimePath("require")))>>)

\* an ESM file without declarations beside a CommonJS fallback list that has them
TypedFallbackList ==
  Obj(<<KV("import", Str("./esm/sub.js")),
        KV("require", Arr(<<Obj(<<KV("types", Str("./cjs/sub.d.cts")),
                                  KV("default", Str("./cjs/sub.cjs"))>>)>>))>>)

\* manifest fields around one subpath: version, package-level types, root directory
PackageInputs ==
  {Input(Manifest(Obj(<<KV("./sub", t)>>), version, types), root, pref,
         DiskOf(NoFiles, {resolve(root, "")})) :
     t \in {Str("./dist/sub.js"), Dual, Obj(<<KV("import", Template("import", "typed"))>>),
            Obj(<<KV("import", Template("import", "typesOnly"))>>), TypedFallbackList},
     version \in {Undefined, Str("1.2.3"), Str(""), Num},
     types \in {Undefined, Str("./types/root.d.ts"), Str(""), Num},
     root \in {"/proj", "C:/proj", "/"},
     pref \in Prefers}

\* what may already lie where a stub is to be written
StubDisks ==
  {DiskOf(NoFiles, {"/proj"}),
   DiskOf([q \in {"/proj/sub"} |-> "occupied"], {}),
   DiskOf([q \in {"/proj/sub/package.json"} |-> "stale"], {}),
   DiskOf(NoFiles, {"/proj/sub/package.json"}),
   DiskOf(NoFiles, {"/proj/sub/nested"})}

DiskInputs ==
  {Input(Manifest(Obj(es), Str("1.2.3"), Undefined), "/proj", "require", d) :
     es \in {<<KV("./sub", Str("./dist/sub.js"))>>,
             <<KV("./sub/nested", Str("./dist/sub/nested.js"))>>,
             <<KV("./sub", Str("./dist/sub.js")), KV("./b", Str("./dist/b.js"))>>,
             <<KV("./sub", Obj(<<KV("types", Str("./types/only.d.ts"))>>)), KV("./b", Str("./dist/b.js"))>>},
     d \in StubDisks}

ExportKeys ==
  {".", "./", "./package.json", "./*", "sub", "#sub",
   "./sub", "./sub/nested", "./sub.js", "./.js", "./sub/"}

\* runtime paths that do and do not follow a key's own file name
MainsFor(key) ==
  LET kb == normalizeSubpath(key)
  IN {key, kb, "", "./" \o kb \o ".ts", "./" \o stripExt(kb) \o ".mjs",
      "./dist/" \o kb \o ".js", "./" \o kb \o "/lib/x.js", "./" \o kb \o "/.hidden.js",
      "/abs/x.js", "../out/x.js"}
     \cup {"./" \o kb \o "." \o Node10Exts[i] : i \in 1..Len(Node10Exts)}
     \cup {"./" \o kb \o "/index." \o Node10Exts[i] : i \in 1..Len(Node10Exts)}

KeyInputs ==
  UNION {{Input(Manifest(Obj(<<KV(key, t)>>), Undefined, Undefined), "/proj", "require",
                DiskOf(NoFiles, {"/proj"})) :
     t \in UNION {{Str(m), Obj(<<KV("default", Str(m))>>)} : m \in MainsFor(key)}} :
         key \in ExportKeys}

EntryPool ==
  {KV(".", Str("./dist/index.js")), KV("./*", Str("./wildcard.js")),
   KV("./package.json", Str("./package.json")), KV("./valid", Str("./dist/valid.js")),
   KV("./sub", Str("./dist/sub.js")), KV("sub", Str("./dist/sub.js")),
   KV("./a", Obj(<<KV("require", Str("./cjs/a.cjs"))>>)), KV("import", Str("./esm/index.js"))}

EntryLists ==
  UNION {{es \in [1..n -> EntryPool] : \A i, j \in 1..n : i # j => es[i].k # es[j].k} :
           n \in 0..MaxEntries}

EntryInputs ==
  {Input(Manifest(Obj(es), Str("1.2.3"), Undefined), "/proj", pref, DiskOf(NoFiles, {"/proj"})) :
     es \in EntryLists, pref \in Prefers}

\* exports fields that are no map
FlatExports ==
  {Undefined, Null, Str(""), Str("./dist/index.js"), Arr(<<>>), Arr(<<Str("./dist/index.js")>>),
   Arr(<<Str("./dist/index.js"), Str("./dist/index.mjs")>>), Arr(<<Str("./sub"), Str("./*")>>), Num}

FlatInputs ==
  {Input(Manifest(e, version, Undefined), root, pref, DiskOf(NoFiles, {resolve(root, "")})) :
     e \in FlatExports, version \in {Undefined, Str("1.2.3")}, root \in {"/proj", "C:/proj"},
     pref \in Prefers}

\* files wildcard patterns may match
WildFiles ==
  {"/proj/dist/a.js", "/proj/dist/b.js", "/proj/dist/a.d.ts", "/proj/dist/b.cjs",
   "/proj/esm/a.js", "/proj/dist/package.json", "/proj/dist/a$$.js"}

WildDisks ==
  {DiskOf([q \in F |-> "code"], {"/proj/dist/lib"}) :
     F \in {F \in SUBSET WildFiles : Cardinality(F) <= MaxFiles}}

WildKeys == {"./f/*", "./*", "./f/*.js", "./f/*/*"}

WildDual ==
  Obj(<<KV("import", Str("./esm/*.js")), KV("require", Str("./dist/*.cjs")),
        KV("types", Str("./dist/*.d.ts"))>>)

WildTargets ==
  {Str("./dist/*.js"),
   Obj(<<KV("import", Obj(<<KV("types", Str("./dist/*.d.ts")), KV("default", Str("./dist/*.js"))>>))>>),
   Arr(<<Str("./dist/*.cjs"), Str("./dist/fixed.js")>>),
   Str("./dist/fixed.js"),
   Str("./dist/*/index.js"),
   Str("./dist/*/*.js")}

WildInputs ==
  {Input(Manifest(Obj(<<KV(key, t)>>), Undefined, Undefined), "/proj", "require", d) :
     key \in WildKeys, t \in WildTargets, d \in WildDisks}
  \cup
  {Input(Manifest(Obj(<<KV(key, WildDual)>>), Undefined, Undefined), "/proj", pref, d) :
     key \in WildKeys, pref \in Prefers, d \in WildDisks}
  \cup
  {Input(Manifest(Obj(es), Undefined, Undefined), "/proj", "require", d) :
     es \in {<<KV("./f/a", Str("./special.js")), KV("./f/*", Str("./dist/*.js"))>>,
             <<KV("./f/*", Str("./dist/*.js")), KV("./f/a", Str("./special.js"))>>,
             <<KV("./f/*", Str("./dist/*.js")), KV("./f/a*", Str("./esm/*.js"))>>},
     d \in WildDisks}

Inputs ==
  ResolutionInputs \cup PackageInputs \cup DiskInputs \cup KeyInputs \cup EntryInputs
  \cup FlatInputs \cup WildInputs

\* the first call, on the manifest, root, preference and filesystem of one input
FirstCall(in) ==
  /\ pkg = in.pkg
  /\ rootDir = in.rootDir
  /\ prefer = in.prefer
  /\ disk = in.disk
  /\ tasks = <<>>
  /\ cursor = 1
  /\ warned = {}
  /\ pc = "start"
  /\ run = 1
  /\ diskAtStart = in.disk

----------------------------------------------------------------------------
(* The post-build steps of dtsForEsm and dtsForCjs, and PackageJson        *)

\* declaration files the compiler emits into one directory
MaxDecls == 2

DeclFiles == 1..MaxDecls

\* the two plugin instances of a dual build
Kinds == {"esm", "cjs"}

\* PackageJson.projectRootPath: cwd() at its first use
projectRootPath == "/proj"

Roots == {projectRootPath, "/lib"}

\* a package.json as far as the post-build steps read it: its "type" and whether
\* its exports hold a wildcard pattern that points into the emission directories
ManifestInputs == [type : {"module", "commonjs", "undefined"}, exports : BOOLEAN]

NoPost == [pc |-> "idle", packageRedirect |-> FALSE, todo |-> {}, listed |-> <<>>, during |-> {}]

NoAnswer == [rootDir |-> "", esm |-> FALSE]

\* no post-build step is part of this machine
PostUnused ==
  /\ manifests = [r \in Roots |-> [type |-> "undefined", exports |-> FALSE]]
  /\ data = <<>>
  /\ post = [k \in Kinds |-> NoPost]
  /\ dist = [k \in Kinds |-> [ts |-> {}, renamed |-> {}]]
  /\ answer = NoAnswer

----------------------------------------------------------------------------
(* The plugin and its worker thread (dts(), worker.ts)                      *)

\* workers one plugin instance may create (one per buildStart that runs)
MaxWorkers == 2

\* hook calls (buildStart, writeBundle) the bundler makes
MaxCalls == 4

\* watchChange events
MaxChanges == 1

WorkerIds == 1..MaxWorkers

checkerMode_NoEmitOnly == options.noEmit

\* const checkerMode = compilerOptions?.noEmit === true || buildOptions?.dry === true
checkerMode == options.noEmit \/ options.dry

\* a worker that has not been created yet
NoWorker ==
  [st |-> "absent", events |-> <<>>, listeners |-> {}, inbox |-> 0, sent |-> 0,
   built |-> "no", posted |-> "none", copied |-> FALSE, after |-> "no", afterCalls |-> 0, wbCalled |-> FALSE,
   epoch |-> 0]

Created == Cardinality({w \in WorkerIds : workers[w].st # "absent"})

NoHook == [name |-> "none", w |-> 0]

\* dts(options): runState, workerInstance, and a bundler that has called nothing yet
PluginCreated ==
  /\ runState = [hasStartRun |-> FALSE, canWriteRun |-> FALSE]
  /\ workerInstance = 0
  /\ workers = [w \in WorkerIds |-> NoWorker]
  /\ hook = NoHook
  /\ bundler = [calls |-> 0, changes |-> 0, updates |-> 0, current |-> 0]

OptionInputs == [mode : {"compile", "build"}, noEmit : BOOLEAN, dry : BOOLEAN]

\* the redirect generator is not part of this machine: afterBuild is the caller's
NoRedirects ==
  FirstCall(Input(Manifest(Undefined, Undefined, Undefined), "/proj", "require",
                  DiskOf(NoFiles, {"/proj"})))

InitPlugin ==
  /\ options \in OptionInputs
  /\ PluginCreated
  /\ NoRedirects
  /\ PostUnused

\* buildStart, already run: "Only run once regardless of format"
BuildStartSkip ==
  /\ hook = NoHook /\ bundler.calls < MaxCalls
  /\ runState.hasStartRun
  /\ bundler' = [bundler EXCEPT !.calls = @ + 1]
  /\ UNCHANGED <<options, runState, workerInstance, workers, hook>>
  /\ UNCHANGED redirectVars
  /\ UNCHANGED postVars

\* buildStart: createWorker, then await waitBuildInWorker (message, error, exit once)
BuildStartCreate ==
  /\ hook = NoHook /\ bundler.calls < MaxCalls
  /\ ~runState.hasStartRun
  /\ Created < MaxWorkers
  /\ LET w == Created + 1
     IN /\ runState' = [runState EXCEPT !.hasStartRun = TRUE]
        /\ workerInstance' = w
        /\ workers' = [workers EXCEPT ![w] = [NoWorker EXCEPT !.st = "building",
                                                               !.listeners = {"bm", "be", "bx"},
                                                               !.epoch = bundler.updates]]
        /\ hook' = [name |-> "buildStart", w |-> w]
        /\ bundler' = [bundler EXCEPT !.calls = @ + 1, !.current = w]
  /\ UNCHANGED options
  /\ UNCHANGED redirectVars
  /\ UNCHANGED postVars

\* the run a writeBundle call belongs to has had its writeBundle
NoteWriteBundle(ws) ==
  IF bundler.current = 0 THEN ws ELSE [ws EXCEPT ![bundler.current].wbCalled = TRUE]

\* writeBundle: nothing to write (no 'build-end' seen, or already handled)
WriteBundleSkip ==
  /\ hook = NoHook /\ bundler.calls < MaxCalls
  /\ ~runState.canWriteRun \/ workerInstance = 0
  /\ workers' = NoteWriteBundle(workers)
  /\ bundler' = [bundler EXCEPT !.calls = @ + 1]
  /\ UNCHANGED <<options, runState, workerInstance, hook>>
  /\ UNCHANGED redirectVars
  /\ UNCHANGED postVars

\* writeBundle: postMessage("copy-start"), then await waitCopyInWorker
WriteBundleSend ==
  /\ hook = NoHook /\ bundler.calls < MaxCalls
  /\ runState.canWriteRun /\ workerInstance # 0
  /\ runState' = [runState EXCEPT !.canWriteRun = FALSE]
  /\ workers' = [NoteWriteBundle(workers) EXCEPT
                   ![workerInstance].inbox = @ + 1,
                   ![workerInstance].sent = @ + 1,
                   ![workerInstance].listeners = @ \cup {"ce", "cx"}]
  /\ hook' = [name |-> "writeBundle", w |-> workerInstance]
  /\ bundler' = [bundler EXCEPT !.calls = @ + 1]
  /\ UNCHANGED <<options, workerInstance>>
  /\ UNCHANGED redirectVars
  /\ UNCHANGED postVars

\* watchChange that re-arms on every event
WatchChange_AnyEvent ==
  /\ bundler.changes < MaxChanges
  /\ \E event \in {"create", "update", "delete"} :
       /\ runState' = [hasStartRun |-> FALSE, canWriteRun |-> FALSE]
       /\ bundler' = [bundler EXCEPT !.changes = @ + 1,
                                     !.updates = IF event = "update" THEN @ + 1 ELSE @]
  /\ UNCHANGED <<options, workerInstance, workers, hook>>
  /\ UNCHANGED redirectVars
  /\ UNCHANGED postVars

\* watchChange(id, change): an update re-arms both flags
WatchChange ==
  /\ bundler.changes < MaxChanges
  /\ \E event \in {"create", "update", "delete"} :
       /\ runState' = IF event = "update"
                        THEN [hasStartRun |-> FALSE, canWriteRun |-> FALSE]
                      ELSE runState
       /\ bundler' = [bundler EXCEPT !.changes = @ + 1,
                                     !.updates = IF event = "update" THEN @ + 1 ELSE @]
  /\ UNCHANGED <<options, workerInstance, workers, hook>>
  /\ UNCHANGED redirectVars
  /\ UNCHANGED postVars

\* worker.ts: the configuration cannot be read, or the compiler's exit code is not 0
\* (copyToDist rejects): the thread ends with an error
WorkerFails(w) ==
  /\ workers[w].st = "building"
  /\ workers' = [workers EXCEPT ![w].st = "exited", ![w].built = "failed",
                                ![w].events = @ \o <<"error", "exit">>]
  /\ UNCHANGED <<options, runState, workerInstance, hook, bundler>>
  /\ UNCHANGED redirectVars
  /\ UNCHANGED postVars

\* copyToDist(0) in checker mode: post 'check-end', resolve; the thread has nothing left
WorkerCheckEnd(w) ==
  /\ workers[w].st = "building"
  /\ checkerMode
  /\ workers' = [workers EXCEPT ![w].st = "exited", ![w].built = "ok",
                                ![w].posted = "check-end",
                                ![w].events = @ \o <<"check-end", "exit">>]
  /\ UNCHANGED <<options, runState, workerInstance, hook, bundler>>
  /\ UNCHANGED redirectVars
  /\ UNCHANGED postVars

\* copyToDist(0) otherwise: post 'build-end', wait for one message
WorkerBuildEnd(w) ==
  /\ workers[w].st = "building"
  /\ ~checkerMode
  /\ workers' = [workers EXCEPT ![w].st = "waiting", ![w].built = "ok",
                                ![w].posted = "build-end",
                                ![w].events = @ \o <<"build-end">>]
  /\ UNCHANGED <<options, runState, workerInstance, hook, bundler>>
  /\ UNCHANGED redirectVars
  /\ UNCHANGED postVars

\* a worker that copies without waiting for the message
WorkerCopyStart_Eager(w) ==
  /\ workers[w].st = "waiting"
  /\ workers' = [workers EXCEPT ![w].st = "copying"]
  /\ UNCHANGED <<options, runState, workerInstance, hook, bundler>>
  /\ UNCHANGED redirectVars
  /\ UNCHANGED postVars

\* parentPort.once("message", ...): the copy starts
WorkerCopyStart(w) ==
  /\ workers[w].st = "waiting"
  /\ workers[w].inbox > 0
  /\ workers' = [workers EXCEPT ![w].st = "copying", ![w].inbox = @ - 1]
  /\ UNCHANGED <<options, runState, workerInstance, hook, bundler>>
  /\ UNCHANGED redirectVars
  /\ UNCHANGED postVars

\* copy(cacheDir, distDir) done: parentPort.close(), the thread ends
WorkerCopyDone(w) ==
  /\ workers[w].st = "copying"
  /\ workers' = [workers EXCEPT ![w].st = "exited", ![w].copied = TRUE,
                                ![w].events = @ \o <<"exit">>]
  /\ UNCHANGED <<options, runState, workerInstance, hook, bundler>>
  /\ UNCHANGED redirectVars
  /\ UNCHANGED postVars

\* copy rejects: copyToDist rejects, the thread ends with an error
WorkerCopyFails(w) ==
  /\ workers[w].st = "copying"
  /\ workers' = [workers EXCEPT ![w].st = "exited",
                                ![w].events = @ \o <<"error", "exit">>]
  /\ UNCHANGED <<options, runState, workerInstance, hook, bundler>>
  /\ UNCHANGED redirectVars
  /\ UNCHANGED postVars

\* main thread, worker.once("message") of waitBuildInWorker: removeAllListeners,
\* resolve; buildStart goes on: canWriteRun = true for 'build-end'
OnMessage(w) ==
  /\ workers[w].events # <<>>
  /\ Head(workers[w].events) \in {"build-end", "check-end"}
  /\ "bm" \in workers[w].listeners
  /\ workers' = [workers EXCEPT ![w].events = Tail(@), ![w].listeners = {}]
  /\ runState' = IF Head(workers[w].events) = "build-end"
                   THEN [runState EXCEPT !.canWriteRun = TRUE]
                 ELSE runState
  /\ hook' = NoHook
  /\ UNCHANGED <<options, workerInstance, bundler>>
  /\ UNCHANGED redirectVars
  /\ UNCHANGED postVars

\* main thread, worker.once("error"): the promise awaited rejects, the hook throws
OnError(w) ==
  /\ workers[w].events # <<>>
  /\ Head(workers[w].events) = "error"
  /\ \/ /\ "be" \in workers[w].listeners
        /\ workers' = [workers EXCEPT ![w].events = Tail(@), ![w].listeners = @ \ {"be"}]
     \/ /\ "ce" \in workers[w].listeners
        /\ workers' = [workers EXCEPT ![w].events = Tail(@), ![w].listeners = @ \ {"ce"}]
  /\ hook' = NoHook
  /\ UNCHANGED <<options, runState, workerInstance, bundler>>
  /\ UNCHANGED redirectVars
  /\ UNCHANGED postVars

\* main thread, the worker's exit: waitCopyInWorker's listener calls afterBuild;
\* waitBuildInWorker's rejects a promise that an error has rejected before; a worker
\* whose listeners were removed ends unnoticed
OnExit(w) ==
  /\ workers[w].events # <<>>
  /\ Head(workers[w].events) = "exit"
  /\ \/ /\ "cx" \in workers[w].listeners
        /\ workers' = [workers EXCEPT ![w].events = Tail(@), ![w].after = "running",
                                      ![w].afterCalls = @ + 1]
     \/ /\ "cx" \notin workers[w].listeners
        /\ "bx" \in workers[w].listeners
        /\ workers' = [workers EXCEPT ![w].events = Tail(@), ![w].listeners = @ \ {"bx"}]
     \/ /\ workers[w].listeners = {}
        /\ workers' = [workers EXCEPT ![w].events = Tail(@)]
  /\ UNCHANGED <<options, runState, workerInstance, hook, bundler>>
  /\ UNCHANGED redirectVars
  /\ UNCHANGED postVars

\* Promise.resolve(afterBuild()).then(() => resolve()): writeBundle goes on,
\* workerInstance = undefined (nothing when an error has rejected the promise before)
AfterBuildResolves(w) ==
  /\ workers[w].after = "running"
  /\ workers' = [workers EXCEPT ![w].after = "done"]
  /\ IF hook = [name |-> "writeBundle", w |-> w]
       THEN workerInstance' = 0 /\ hook' = NoHook
     ELSE UNCHANGED <<workerInstance, hook>>
  /\ UNCHANGED <<options, runState, bundler>>
  /\ UNCHANGED redirectVars
  /\ UNCHANGED postVars

\* afterBuild throws or rejects: resolve is never called
AfterBuildRejects(w) ==
  /\ workers[w].after = "running"
  /\ workers' = [workers EXCEPT ![w].after = "failed"]
  /\ UNCHANGED <<options, runState, workerInstance, hook, bundler>>
  /\ UNCHANGED redirectVars
  /\ UNCHANGED postVars

WorkerStep(w) ==
  \/ WorkerFails(w)
  \/ WorkerCheckEnd(w)
  \/ WorkerBuildEnd(w)
  \/ WorkerCopyStart(w)
  \/ WorkerCopyDone(w)
  \/ WorkerCopyFails(w)

MainLoop(w) ==
  \/ OnMessage(w)
  \/ OnError(w)
  \/ OnExit(w)

NextPlugin ==
  \/ BuildStartSkip
  \/ BuildStartCreate
  \/ WriteBundleSkip
  \/ WriteBundleSend
  \/ WatchChange
  \/ \E w \in WorkerIds : WorkerStep(w)
  \/ \E w \in WorkerIds : MainLoop(w)
  \/ \E w \in WorkerIds : AfterBuildResolves(w) \/ AfterBuildRejects(w)

SpecPlugin == InitPlugin /\ [][NextPlugin]_vars

\* the worker thread runs on and Node's event loop hands over every event it holds;
\* nothing obliges the bundler to call a hook or afterBuild to come to an end
FairPlugin ==
  /\ SpecPlugin
  /\ \A w \in WorkerIds : WF_vars(WorkerStep(w)) /\ WF_vars(MainLoop(w))

----------------------------------------------------------------------------
(* The redirect generator as a state machine                               *)

\* the plugin around the generator stays as dts() made it
PluginUnused ==
  /\ options = [mode |-> "build", noEmit |-> FALSE, dry |-> FALSE]
  /\ PluginCreated

Init == (\E in \in Inputs : FirstCall(in)) /\ PluginUnused /\ PostUnused

\* generatePackageJsonRedirects: a manifest without exports is left alone
SkipGenerate ==
  /\ pc = "start"
  /\ pkg.exports.t \in {"null", "undefined"}
  /\ pc' = "done"
  /\ UNCHANGED <<pkg, rootDir, prefer, disk, tasks, cursor, warned, run, diskAtStart>>
  /\ UNCHANGED pluginVars
  /\ UNCHANGED postVars

\* tasks = await computeRedirectStubs({ pkg, rootDir, prefer })
ComputeRedirectStubs ==
  /\ pc = "start"
  /\ \E ord \in Orders : tasks' = computeRedirectStubs(disk, pkg, rootDir, prefer, ord)
  /\ pc' = "planned"
  /\ UNCHANGED <<pkg, rootDir, prefer, disk, cursor, warned, run, diskAtStart>>
  /\ UNCHANGED pluginVars
  /\ UNCHANGED postVars

\* writeRedirectStubs, one pass of its loop: a task without stub is passed over
WriteSkipNull ==
  /\ pc = "planned"
  /\ cursor <= Len(tasks)
  /\ tasks[cursor].stub = <<>>
  /\ cursor' = cursor + 1
  /\ UNCHANGED <<pkg, rootDir, prefer, disk, tasks, warned, pc, run, diskAtStart>>
  /\ UNCHANGED pluginVars
  /\ UNCHANGED postVars

WriteCollision_Fatal ==
  /\ pc = "planned"
  /\ cursor <= Len(tasks)
  /\ tasks[cursor].stub # <<>>
  /\ stat(disk, tasks[cursor].stubDir) = "file"
  /\ pc' = "failed"
  /\ UNCHANGED <<pkg, rootDir, prefer, disk, tasks, cursor, warned, run, diskAtStart>>
  /\ UNCHANGED pluginVars
  /\ UNCHANGED postVars

\* a file lies where the stub directory should be: warn and go on
WriteCollision ==
  /\ pc = "planned"
  /\ cursor <= Len(tasks)
  /\ tasks[cursor].stub # <<>>
  /\ stat(disk, tasks[cursor].stubDir) = "file"
  /\ warned' = warned \cup {tasks[cursor].stubDir}
  /\ cursor' = cursor + 1
  /\ UNCHANGED <<pkg, rootDir, prefer, disk, tasks, pc, run, diskAtStart>>
  /\ UNCHANGED pluginVars
  /\ UNCHANGED postVars

\* mkdir(stubDir, { recursive: true }), then writeFile(stubJsonPath, json)
WriteStub ==
  /\ pc = "planned"
  /\ cursor <= Len(tasks)
  /\ tasks[cursor].stub # <<>>
  /\ stat(disk, tasks[cursor].stubDir) # "file"
  /\ mkdirOk(disk, tasks[cursor].stubDir)
  /\ writeFileOk(mkdir(disk, tasks[cursor].stubDir), tasks[cursor].stubJsonPath)
  /\ disk' = writeFile(mkdir(disk, tasks[cursor].stubDir), tasks[cursor].stubJsonPath,
                       StubJsonText(tasks[cursor].stub[1]))
  /\ cursor' = cursor + 1
  /\ UNCHANGED <<pkg, rootDir, prefer, tasks, warned, pc, run, diskAtStart>>
  /\ UNCHANGED pluginVars
  /\ UNCHANGED postVars

\* mkdir or writeFile rejects: writeRedirectStubs rejects, later tasks are not looked at
WriteFail ==
  /\ pc = "planned"
  /\ cursor <= Len(tasks)
  /\ tasks[cursor].stub # <<>>
  /\ stat(disk, tasks[cursor].stubDir) # "file"
  /\ \/ /\ ~mkdirOk(disk, tasks[cursor].stubDir)
        /\ disk' = disk
     \/ /\ mkdirOk(disk, tasks[cursor].stubDir)
        /\ ~writeFileOk(mkdir(disk, tasks[cursor].stubDir), tasks[cursor].stubJsonPath)
        /\ disk' = mkdir(disk, tasks[cursor].stubDir)
  /\ pc' = "failed"
  /\ UNCHANGED <<pkg, rootDir, prefer, tasks, cursor, warned, run, diskAtStart>>
  /\ UNCHANGED pluginVars
  /\ UNCHANGED postVars

\* the loop is over
WriteDone ==
  /\ pc = "planned"
  /\ cursor > Len(tasks)
  /\ pc' = "done"
  /\ UNCHANGED <<pkg, rootDir, prefer, disk, tasks, cursor, warned, run, diskAtStart>>
  /\ UNCHANGED pluginVars
  /\ UNCHANGED postVars

Next ==
  \/ SkipGenerate
  \/ ComputeRedirectStubs
  \/ WriteSkipNull
  \/ WriteCollision
  \/ WriteStub
  \/ WriteFail
  \/ WriteDone

Spec == Init /\ [][Next]_vars

\* a pattern that lists the directory another entry's stub is written into
StubDirPattern ==
  <<KV("./sub", Str("./dist/sub.js")), KV("./f/*", Str("./sub/*.json"))>>

\* inputs of the runs that are repeated
RerunInputs ==
  DiskInputs \cup FlatInputs \cup PackageInputs
  \cup
  {Input(Manifest(Obj(es), Str("1.2.3"), Undefined), "/proj", "require", d) :
     es \in {StubDirPattern, <<KV("./*", Str("./dist/*.js"))>>, <<KV("./f/*", WildDual)>>},
     d \in WildDisks}

\* the caller calls generatePackageJsonRedirects again once a call has returned
Rerun ==
  /\ pc = "done"
  /\ run < MaxRuns
  /\ run' = run + 1
  /\ diskAtStart' = disk
  /\ tasks' = <<>>
  /\ cursor' = 1
  /\ warned' = {}
  /\ pc' = "start"
  /\ UNCHANGED <<pkg, rootDir, prefer, disk>>
  /\ UNCHANGED pluginVars
  /\ UNCHANGED postVars

InitRerun == (\E in \in RerunInputs : FirstCall(in)) /\ PluginUnused /\ PostUnused

NextRerun ==
  \/ SkipGenerate
  \/ ComputeRedirectStubs
  \/ WriteSkipNull
  \/ WriteCollision
  \/ WriteStub
  \/ WriteFail
  \/ WriteDone
  \/ Rerun

SpecRerun == InitRerun /\ [][NextRerun]_vars

----------------------------------------------------------------------------
(* dtsForEsm / dtsForCjs afterBuild as a state machine                     *)

\* PackageJson.getData(rootDir): the file is read when nothing is cached yet
getData(dir) ==
  IF data = <<>> THEN [root |-> dir, json |-> manifests[dir]] ELSE data[1]

\* data.type === "module"
isEsmProject(d) == d.json.type = "module"

\* data.type === "commonjs" || data.type === undefined
isCjsProject(d) == d.json.type \in {"commonjs", "undefined"}

\* a dual build: both instances in the plugin list, each with its packageRedirect,
\* the compiler's declarations copied into dist/esm and dist/cjs
InitPostBuild ==
  /\ manifests \in [Roots -> ManifestInputs]
  /\ data = <<>>
  /\ \E pe \in BOOLEAN, pcj \in BOOLEAN :
       post = [k \in Kinds |->
                 [NoPost EXCEPT !.packageRedirect = IF k = "esm" THEN pe ELSE pcj]]
  /\ dist \in [Kinds -> {[ts |-> DeclFiles, renamed |-> {}], [ts |-> {}, renamed |-> {}]}]
  /\ answer = NoAnswer
  /\ NoRedirects
  /\ PluginUnused

\* afterBuild of instance k begins (its worker has exited): the module type of the
\* project decides whether the declarations of its outDir are renamed
AfterBuildStarts(k) ==
  /\ post[k].pc = "idle"
  /\ LET d == getData(projectRootPath)
         rename == IF k = "esm" THEN isCjsProject(d) ELSE isEsmProject(d)
     IN /\ data' = <<d>>
        /\ post' = [post EXCEPT ![k].pc = IF rename THEN "rename" ELSE "redirect"]
  /\ UNCHANGED <<manifests, dist, answer>>
  /\ UNCHANGED redirectVars
  /\ UNCHANGED pluginVars

\* renameDeclarationFiles: collectDeclarationFiles(dir); nothing to do without files
CollectDeclarationFiles(k) ==
  /\ post[k].pc = "rename"
  /\ post' = [post EXCEPT ![k].todo = dist[k].ts,
                          ![k].pc = IF dist[k].ts = {} THEN "redirect" ELSE "processing"]
  /\ UNCHANGED <<manifests, data, dist, answer>>
  /\ UNCHANGED redirectVars
  /\ UNCHANGED pluginVars

\* processDtsFile(fullPath, type) for one file of the pool: the rewritten text goes
\* to .d.mts / .d.cts and the .d.ts is unlinked; the pool ends with its last file
ProcessDtsFile(k, f) ==
  /\ post[k].pc = "processing"
  /\ f \in post[k].todo
  /\ dist' = [dist EXCEPT ![k].ts = @ \ {f}, ![k].renamed = @ \cup {f}]
  /\ post' = [post EXCEPT ![k].todo = @ \ {f},
                          ![k].pc = IF post[k].todo = {f} THEN "redirect" ELSE "processing"]
  /\ UNCHANGED <<manifests, data, answer>>
  /\ UNCHANGED redirectVars
  /\ UNCHANGED pluginVars

\* the other instances whose renameDeclarationFiles has begun and not ended
Renaming(k) == {j \in Kinds \ {k} : post[j].pc \in {"rename", "processing"}}

\* if (packageRedirect) await generatePackageJsonRedirects(...): with exports in
\* the manifest, the expansion lists the emission directories as they are now
GenerateRedirects(k) ==
  /\ post[k].pc = "redirect"
  /\ post[k].packageRedirect
  /\ LET d == getData(projectRootPath)
     IN /\ data' = <<d>>
        /\ post' = IF d.json.exports
                     THEN [post EXCEPT ![k].pc = "user", ![k].listed = <<dist>>,
                                       ![k].during = Renaming(k) \cup
                                                       (IF post[k].todo # {} THEN {k} ELSE {})]
                   ELSE [post EXCEPT ![k].pc = "user"]
  /\ UNCHANGED <<manifests, dist, answer>>
  /\ UNCHANGED redirectVars
  /\ UNCHANGED pluginVars

\* packageRedirect is off
SkipRedirects(k) ==
  /\ post[k].pc = "redirect"
  /\ ~post[k].packageRedirect
  /\ post' = [post EXCEPT ![k].pc = "user"]
  /\ UNCHANGED <<manifests, data, dist, answer>>
  /\ UNCHANGED redirectVars
  /\ UNCHANGED pluginVars

\* if (afterBuild) await Promise.resolve(afterBuild()): the caller's own callback
UserAfterBuild(k) ==
  /\ post[k].pc = "user"
  /\ post' = [post EXCEPT ![k].pc = "done"]
  /\ UNCHANGED <<manifests, data, dist, answer>>
  /\ UNCHANGED redirectVars
  /\ UNCHANGED pluginVars

\* PackageJson.isEsmProject(rootDir) asked of any root
QueryModuleType(dir) ==
  /\ LET d == getData(dir)
     IN /\ data' = <<d>>
        /\ answer' = [rootDir |-> dir, esm |-> isEsmProject(d)]
  /\ UNCHANGED <<manifests, post, dist>>
  /\ UNCHANGED redirectVars
  /\ UNCHANGED pluginVars

NextPostBuild ==
  \/ \E k \in Kinds : AfterBuildStarts(k)
  \/ \E k \in Kinds : CollectDeclarationFiles(k)
  \/ \E k \in Kinds, f \in DeclFiles : ProcessDtsFile(k, f)
  \/ \E k \in Kinds : GenerateRedirects(k)
  \/ \E k \in Kinds : SkipRedirects(k)
  \/ \E k \in Kinds : UserAfterBuild(k)
  \/ \E dir \in Roots : QueryModuleType(dir)

SpecPostBuild == InitPostBuild /\ [][NextPostBuild]_vars

----------------------------------------------------------------------------
(* Vocabulary of the properties                                            *)

\* computeRedirectStubs has just returned: disk is still the disk it read
Planned == pc = "planned" /\ cursor = 1

\* the exports map computeRedirectStubs plans from, wildcard keys expanded
Normalized == normalizeExports(pkg.exports)

\* (what a key maps to does not depend on the listing order: see C12)
Expanded ==
  IF Normalized = Null THEN Obj(<<>>) ELSE expandWildCardExports(disk, Normalized, rootDir, "asc")

OrderOfRun == BranchOrderOf(prefer)

RootTypesOfRun == IF IsString(pkg.types) THEN Some(pkg.types.s) ELSE None

\* the planned tasks of one export key
TasksOf(key) == SelectSeq(tasks, LAMBDA t : t.key = key)

\* a path without its leading "./"
Unprefixed(p) == IF StartsWith(p, "./") THEN SubSeq(p, 3, Len(p)) ELSE p

\* a key that stands for a sub-directory of the package
SubpathKey(key) ==
  /\ StartsWith(key, "./") /\ Len(key) > 2
  /\ key # "./package.json"
  /\ ~Includes(key, "*")

\* a path without the extension of its last segment ("a/b.c" -> "a/b", ".js" -> "")
WithoutExt(p) ==
  LET segs  == Split(p, "/")
      last  == segs[Len(segs)]
      parts == Split(last, ".")
      ext   == parts[Len(parts)]
  IN IF Len(parts) >= 2 /\ ext # ""
       THEN SubSeq(p, 1, Len(p) - Len(ext) - 1)
     ELSE p

LegacyExts == {"js", "cjs", "mjs", "json", "node"}

\* Node 10 resolution of <package>/<key> already arrives at main
LegacyReachable(key, main) ==
  LET k == Unprefixed(key)
      m == Unprefixed(main)
  IN \/ m = k
     \/ \E e \in LegacyExts : m = k \o "." \o e \/ m = k \o "/index." \o e
     \/ WithoutExt(m) = k
     \/ WithoutExt(m) = WithoutExt(k)

\* the string leaves of a target that do not sit under a "types" key
RECURSIVE RuntimeLeaves(_)
RuntimeLeaves(t) ==
  IF IsString(t) THEN {t.s}
  ELSE IF IsArray(t) THEN UNION {RuntimeLeaves(t.c[i].v) : i \in 1..Len(t.c)}
  ELSE IF isPlainObject(t)
    THEN UNION {RuntimeLeaves(t.c[i].v) : i \in {j \in 1..Len(t.c) : t.c[j].k # "types"}}
  ELSE {}

\* every string leaf of a target
RECURSIVE StringLeaves(_)
StringLeaves(t) ==
  IF IsString(t) THEN {t.s}
  ELSE IF IsArray(t) \/ isPlainObject(t) THEN UNION {StringLeaves(t.c[i].v) : i \in 1..Len(t.c)}
  ELSE {}

\* the stub of the task makes the sub-directory resolve to the file root/path
PointsAt(task, path) ==
  /\ task.stub # <<>>
  /\ resolve(task.stubDir, task.stub[1].main) = resolve(rootDir, path)

\* the plan for key is the one a runtime path `want` calls for: a null stub when
\* there is no path, nothing when Node 10 gets there unaided, else one redirect to it
PlannedFrom(key, want) ==
  LET ts == TasksOf(key)
  IN IF want = "" THEN Len(ts) = 1 /\ ts[1].stub = <<>>
     ELSE IF LegacyReachable(key, want) THEN ts = <<>>
     ELSE Len(ts) = 1 /\ PointsAt(ts[1], want)

\* { import: A, require: B }, either member possibly missing
IsDualMap(e) ==
  /\ isPlainObject(e) /\ Len(e.c) >= 1
  /\ \A i \in 1..Len(e.c) : e.c[i].k \in {"import", "require"} /\ IsString(e.c[i].v)

OtherPrefer == IF prefer = "import" THEN "require" ELSE "import"

----------------------------------------------------------------------------
(* Properties of the resolver and the planner                              *)

\* C1: for a target { import: A, require: B }, preference import plans main from A
\* and preference require plans main from B; when the preferred condition is
\* missing from the map, the other condition's path is the one planned.
C1_PreferenceSelectsMain ==
  Planned =>
    \A i \in 1..Len(Expanded.c) :
      LET key == Expanded.c[i].k
          e   == Expanded.c[i].v
      IN (SubpathKey(key) /\ IsDualMap(e)) =>
           /\ selectTargets(e, OrderOfRun, RootTypesOfRun).main
                = Some(IF HasKey(e, prefer) THEN Get(e, prefer).s ELSE Get(e, OtherPrefer).s)
           /\ PlannedFrom(key, IF HasKey(e, prefer) THEN Get(e, prefer).s ELSE Get(e, OtherPrefer).s)

\* preference require, map with both conditions: the stub redirects to B
C1_Witness_Both ==
  /\ Planned /\ prefer = "require" /\ rootDir = "/proj"
  /\ pkg.exports = Obj(<<KV("./sub", Obj(<<KV("import", Str("./esm/sub.js")),
                                           KV("require", Str("./cjs/sub.cjs"))>>))>>)
  /\ Len(tasks) = 1 /\ tasks[1].stub # <<>> /\ tasks[1].stub[1].main = "../cjs/sub.cjs"

\* the key directly above a runtime leaf: the branch name pickMain reports for it
RECURSIVE EnclosingKeys(_, _, _)
EnclosingKeys(t, path, inherited) ==
  IF IsString(t) THEN (IF t.s = path THEN {inherited} ELSE {})
  ELSE IF IsArray(t) THEN UNION {EnclosingKeys(t.c[i].v, path, inherited) : i \in 1..Len(t.c)}
  ELSE IF isPlainObject(t)
    THEN UNION {EnclosingKeys(t.c[i].v, path, Some(t.c[i].k)) :
                  i \in {j \in 1..Len(t.c) : t.c[j].k # "types"}}
  ELSE {}

\* the "types" string a branch value carries itself (in an array: its first element's)
OwnTypes(v) ==
  IF isPlainObject(v)
    THEN (IF IsString(Get(v, "types")) THEN Some(Get(v, "types").s) ELSE None)
  ELSE IF IsArray(v)
    THEN LET hits == {i \in 1..Len(v.c) : isPlainObject(v.c[i].v) /\ IsString(Get(v.c[i].v, "types"))}
         IN IF hits = {} THEN None ELSE Some(Get(v.c[Min(hits)].v, "types").s)
  ELSE None

\* the first condition of the branch order, other than the chosen one, that is an
\* object with a "types" string
OtherTypes(e, chosen, order) ==
  LET hits == {i \in 1..Len(order) :
                 /\ Some(order[i]) # chosen
                 /\ isPlainObject(Get(e, order[i]))
                 /\ IsString(Get(Get(e, order[i]), "types"))}
  IN IF hits = {} THEN None ELSE Some(Get(Get(e, order[Min(hits)]), "types").s)

\* the four tiers, read at the root of a Conditions object e whose runtime path
\* was found under branch name `chosen`
TypesByPriority(e, chosen, order, got) ==
  LET own   == IF chosen # None /\ chosen[1] # "" /\ Truthy(Get(e, chosen[1]))
                 THEN OwnTypes(Get(e, chosen[1])) ELSE None
      top   == IF IsString(Get(e, "types")) THEN Some(Get(e, "types").s) ELSE None
      other == OtherTypes(e, chosen, order)
  IN IF own # None THEN got = own
     ELSE IF top # None THEN got = top
     ELSE IF other # None THEN got = other
     ELSE got = None \/ got = RootTypesOfRun \/ got[1] \in StringLeaves(e)

\* the branch name under which the selected runtime path of e lies
ChosenOf(e) ==
  LET m == selectTargets(e, OrderOfRun, RootTypesOfRun).main
  IN IF m = None THEN {None} ELSE EnclosingKeys(e, m[1], None)

C3_TypesOnlyNullStub ==
  Planned =>
    \A i \in 1..Len(Expanded.c) :
      LET key == Expanded.c[i].k
          e   == Expanded.c[i].v
      IN (SubpathKey(key) /\ RuntimeLeaves(e) = {}) =>
           /\ Len(TasksOf(key)) = 1
           /\ TasksOf(key)[1].stub = <<>>

\* a target that has types leaves and nothing else
C3_Witness_TypesOnly ==
  /\ Planned /\ Len(tasks) = 1 /\ tasks[1].stub = <<>>
  /\ isPlainObject(pkg.exports) /\ Len(pkg.exports.c) = 1
  /\ RuntimeLeaves(pkg.exports.c[1].v) = {}
  /\ StringLeaves(pkg.exports.c[1].v) # {}

\* C4: a sub-directory key k whose resolved main is k, k.ext or k/index.ext for ext in
\* js, cjs, mjs, json, node, or whose main without its extension is k or k without
\* its own extension, gets no task; neither does a key whose target is the bare
\* string equal to the key once "./" is removed.
C4_LegacyResolvableNoTask ==
  Planned =>
    \A i \in 1..Len(Expanded.c) :
      LET key == Expanded.c[i].k
          e   == Expanded.c[i].v
          m   == selectTargets(e, OrderOfRun, RootTypesOfRun).main
      IN SubpathKey(key) =>
           /\ (m # None /\ m[1] # "" /\ LegacyReachable(key, m[1])) => TasksOf(key) = <<>>
           /\ (IsString(e) /\ Unprefixed(e.s) = Unprefixed(key)) => TasksOf(key) = <<>>

\* main is key/index.ext inside a Conditions object: nothing planned
C4_Witness_Index ==
  /\ Planned /\ tasks = <<>>
  /\ isPlainObject(pkg.exports) /\ Len(pkg.exports.c) = 1
  /\ LET key == pkg.exports.c[1].k
         e   == pkg.exports.c[1].v
         m   == selectTargets(e, OrderOfRun, RootTypesOfRun).main
     IN /\ SubpathKey(key) /\ isPlainObject(e)
        /\ m # None
        /\ \E x \in LegacyExts : Unprefixed(m[1]) = Unprefixed(key) \o "/index." \o x

\* C5: a manifest whose exports field is absent, null, a bare string or an array
\* yields no task.
C5_FlatExportsNoTasks ==
  (pc # "start" /\ (pkg.exports.t \in {"undefined", "null", "string", "array"}))
    => tasks = <<>>

\* an array of strings went through the planner
C5_Witness_Array ==
  /\ Planned /\ IsArray(pkg.exports) /\ Len(pkg.exports.c) >= 1 /\ tasks = <<>>

\* C6: no task comes from ".", from "./package.json" or from a key that contains "*";
\* tasks come from keys that start with "./" only, so no stub directory is the
\* package root or the package's own package.json.
C6_OnlySubpathKeysPlanned ==
  /\ \A i \in 1..Len(tasks) :
       /\ StartsWith(tasks[i].key, "./")
       /\ tasks[i].key \notin {".", "./package.json"}
       /\ ~Includes(tasks[i].key, "*")
       /\ resolve(tasks[i].stubDir, "") \notin {resolve(rootDir, ""), resolve(rootDir, "package.json")}
  /\ Planned =>
       \A i \in 1..Len(Expanded.c) :
         LET key == Expanded.c[i].k
         IN (key \in {".", "./package.json"} \/ Includes(key, "*") \/ ~StartsWith(key, "./"))
              => TasksOf(key) = <<>>

\* "./package.json" listed before a sub-directory key: only the latter is planned
C6_Witness_Filtered ==
  /\ Planned /\ isPlainObject(pkg.exports) /\ Len(pkg.exports.c) = 2
  /\ pkg.exports.c[1].k = "./package.json"
  /\ Len(tasks) = 1 /\ tasks[1].key = pkg.exports.c[2].k /\ tasks[1].stub # <<>>

\* C7: when the preferred condition is missing from a Conditions object that has
\* both node and browser, and node leads to a runtime path, main is taken from
\* node, under either preference.
C7_NodeOutranksBrowser ==
  Planned =>
    \A i \in 1..Len(Expanded.c) :
      LET key  == Expanded.c[i].k
          e    == Expanded.c[i].v
          m    == selectTargets(e, OrderOfRun, RootTypesOfRun).main
          node == RuntimeLeaves(Get(e, "node"))
      IN (/\ SubpathKey(key) /\ isPlainObject(e)
          /\ HasKey(e, "node") /\ HasKey(e, "browser") /\ ~HasKey(e, prefer)
          /\ node # {} /\ "" \notin node) =>
           /\ m # None /\ m[1] \in node
           /\ m[1] \notin RuntimeLeaves(Get(e, "browser"))
           /\ PlannedFrom(key, m[1])

\* browser is listed first in the object, node is planned all the same
C7_Witness_BrowserListedFirst ==
  /\ Planned /\ prefer = "import"
  /\ pkg.exports = Obj(<<KV("./sub", Obj(<<KV("browser", Str("./browser/sub.js")),
                                           KV("node", Str("./node/sub.js"))>>))>>)
  /\ Len(tasks) = 1 /\ tasks[1].stub # <<>> /\ tasks[1].stub[1].main = "../node/sub.js"

\* a string with every "*" replaced by the token
StarFilled(x, token) == JoinWith(Split(x, "*"), token)

\* a target of the same shape, the token put into every string leaf
RECURSIVE Substituted(_, _)
Substituted(t, token) ==
  IF IsString(t) THEN Str(StarFilled(t.s, token))
  ELSE IF IsArray(t) \/ isPlainObject(t)
    THEN [t EXCEPT !.c = [i \in 1..Len(t.c) |-> KV(t.c[i].k, Substituted(t.c[i].v, token))]]
  ELSE t

SingleStar(x) == Len(Split(x, "*")) = 2

\* the tokens found on disk for entry i of the normalised exports map
TokensOf(i) ==
  LET ts == collectTokensFromExportTarget(disk, Normalized.c[i].v, rootDir, "asc", <<>>)
  IN {ts[j] : j \in 1..Len(ts)}

\* entry i of the normalised exports map gives rise to concrete key ck
Produces(i, ck) ==
  LET k == Normalized.c[i].k
  IN IF Includes(k, "*") THEN \E token \in TokensOf(i) : StarFilled(k, token) = ck
     ELSE k = ck

\* C8: a wildcard key (one "*", each pattern of its target with at most one "*") is
\* turned, for every token found on disk, into exactly one concrete entry: its key
\* is the wildcard key with the token in place of "*", its target the wildcard
\* target with the token, as found, in place of "*" in every string leaf and the
\* shape kept (unless a later entry of the map defines the same concrete key);
\* nothing else is added.
C8_WildcardExpansion ==
  (Planned /\ Normalized # Null) =>
    /\ \A i \in 1..Len(Normalized.c) :
         LET k == Normalized.c[i].k
             t == Normalized.c[i].v
         IN (SingleStar(k) /\ \A x \in StringLeaves(t) : Len(Split(x, "*")) <= 2) =>
              \A token \in TokensOf(i) :
                LET ck == StarFilled(k, token)
                IN /\ Cardinality({j \in 1..Len(Expanded.c) : Expanded.c[j].k = ck}) = 1
                   /\ (\A j \in (i + 1)..Len(Normalized.c) : ~Produces(j, ck))
                        => Get(Expanded, ck) = Substituted(t, token)
    /\ (\A i \in 1..Len(Normalized.c) : Len(Split(Normalized.c[i].k, "*")) <= 2) =>
         \A j \in 1..Len(Expanded.c) :
           \E i \in 1..Len(Normalized.c) : Produces(i, Expanded.c[j].k)

\* text holds sub as a substring
Contains(text, sub) ==
  \E i \in 1..(Len(text) - Len(sub) + 1) : SubSeq(text, i, i + Len(sub) - 1) = sub

\* task i has been written to disk by writeRedirectStubs
Written(i) ==
  /\ i < cursor /\ tasks[i].stub # <<>>
  /\ tasks[i].stubDir \notin warned

WrittenText(i) == disk[resolve(tasks[i].stubJsonPath, "")].data

\* C9: a string version of the manifest is copied into every stub planned and into
\* every stub file written; a manifest without a string version gives stubs, planned
\* and written, without any version.
C9_VersionCopied ==
  /\ \A i \in 1..Len(tasks) :
       tasks[i].stub # <<>> =>
         tasks[i].stub[1].version = (IF IsString(pkg.version) THEN Some(pkg.version.s) ELSE None)
  /\ \A i \in 1..Len(tasks) :
       Written(i) =>
         IF IsString(pkg.version)
           THEN Contains(WrittenText(i), "\"version\": " \o Quoted(pkg.version.s))
         ELSE ~Contains(WrittenText(i), "version")

\* a stub with the manifest's version is on disk
C9_Witness_Written ==
  /\ pc = "done" /\ pkg.version = Str("1.2.3")
  /\ Len(tasks) = 1 /\ Written(1)
  /\ Contains(WrittenText(1), "\"version\": \"1.2.3\"")

\* the segments of a path, a trailing "/" set aside
Segments(p) ==
  LET segs == Split(p, "/")
  IN IF Len(segs) > 1 /\ segs[Len(segs)] = "" THEN SubSeq(segs, 1, Len(segs) - 1) ELSE segs

PlainPath(p) == \A i \in 1..Len(Segments(p)) : Segments(p)[i] \notin {"", ".", ".."}

RECURSIVE Ups(_)
Ups(n) == IF n = 0 THEN "" ELSE "../" \o Ups(n - 1)

\* C10: a planned task has stubDir = root joined with the key less its "./",
\* stubJsonPath = stubDir/package.json and, when a main was resolved, a stub that is
\* private and whose main is the path from stubDir to the main file resolved against
\* the root; key "./sub" with main "./cjs/sub.cjs" under "/proj" gives "/proj/sub"
\* and "../cjs/sub.cjs".
C10_StubLocationAndMain ==
  Planned =>
    /\ \A i \in 1..Len(tasks) :
         LET t   == tasks[i]
             kb  == Unprefixed(t.key)
             m   == selectTargets(Get(Expanded, t.key), OrderOfRun, RootTypesOfRun).main
         IN PlainPath(kb) =>
              /\ t.stubDir = (IF rootDir = "/" THEN "" ELSE rootDir) \o "/" \o kb
              /\ t.stubJsonPath
                   = (IF EndsWith(t.stubDir, "/") THEN t.stubDir ELSE t.stubDir \o "/") \o "package.json"
              /\ t.stub # <<>> =>
                   /\ t.stub[1].private = TRUE
                   /\ m # None /\ m[1] \in RuntimeLeaves(Get(Expanded, t.key))
                   /\ PointsAt(t, m[1])
                   /\ (/\ StartsWith(m[1], "./") /\ PlainPath(Unprefixed(m[1]))
                       /\ Segments(Unprefixed(m[1]))[1] # Segments(kb)[1])
                        => t.stub[1].main = Ups(Len(Segments(kb))) \o Unprefixed(m[1])
    /\ (/\ rootDir = "/proj" /\ prefer = "require"
        /\ pkg.exports = Obj(<<KV("./sub", Dual)>>)) =>
         /\ Len(tasks) = 1
         /\ tasks[1].stubDir = "/proj/sub"
         /\ tasks[1].stubJsonPath = "/proj/sub/package.json"
         /\ tasks[1].stub # <<>> /\ tasks[1].stub[1].main = "../cjs/sub.cjs"

\* a key two levels down: the stub climbs two directories
C10_Witness_Nested ==
  /\ Planned /\ rootDir = "/proj" /\ Len(tasks) = 1
  /\ tasks[1].key = "./sub/nested"
  /\ tasks[1].stubDir = "/proj/sub/nested"
  /\ tasks[1].stubJsonPath = "/proj/sub/nested/package.json"
  /\ tasks[1].stub # <<>> /\ tasks[1].stub[1].private
  /\ tasks[1].stub[1].main = "../../dist/sub/nested.js"

\* a stub path written with "/" only and starting with "./" or "../"
PosixRelative(p) == ~Includes(p, "\\") /\ (StartsWith(p, "./") \/ StartsWith(p, "../"))

\* C11: in every planned stub, main, and types when present, use "/" as the only
\* separator and begin with "./" or "../".
C11_StubPathsPrefixed ==
  \A i \in 1..Len(tasks) :
    tasks[i].stub # <<>> =>
      /\ PosixRelative(tasks[i].stub[1].main)
      /\ tasks[i].stub[1].types # None => PosixRelative(tasks[i].stub[1].types[1])

\* the plan another call of computeRedirectStubs makes of the same manifest,
\* preference and disk, the directories listing their entries in order ord
OtherRun(ord) == computeRedirectStubs(disk, pkg, rootDir, prefer, ord)

\* two plans hold the same tasks (key, stubDir, stubJsonPath, stub), in any order
SameBySubpath(a, b) ==
  /\ Len(a) = Len(b)
  /\ {a[i] : i \in 1..Len(a)} = {b[i] : i \in 1..Len(b)}

\* C12: planning is deterministic: any other run of computeRedirectStubs on the same
\* manifest, preference and filesystem snapshot plans, for every subpath, the same
\* main, the same types and the same stub, in whatever order the filesystem lists
\* its directories.
C12_PlanDeterministic ==
  Planned => \A ord \in Orders : SameBySubpath(tasks, OtherRun(ord))

\* two runs that list a directory differently: the tasks come in another order,
\* subpath by subpath they are the same
C12_Witness_OrderDiffers ==
  /\ Planned /\ Len(tasks) >= 2
  /\ \E ord \in Orders : OtherRun(ord) # tasks /\ SameBySubpath(tasks, OtherRun(ord))
  /\ \A i \in 1..Len(tasks) : tasks[i].stub # <<>>

\* the strings that sit directly under a "types" key, anywhere in a target
RECURSIVE TypesLeaves(_)
TypesLeaves(t) ==
  IF IsArray(t) THEN UNION {TypesLeaves(t.c[i].v) : i \in 1..Len(t.c)}
  ELSE IF isPlainObject(t)
    THEN UNION {IF t.c[i].k = "types"
                  THEN (IF IsString(t.c[i].v) THEN {t.c[i].v.s} ELSE {})
                ELSE TypesLeaves(t.c[i].v) : i \in 1..Len(t.c)}
  ELSE {}

\* the stub's types leads from the stub directory to the file root/path
TypesPointAt(task, path) ==
  /\ task.stub # <<>> /\ task.stub[1].types # None
  /\ resolve(task.stubDir, task.stub[1].types[1]) = resolve(rootDir, path)

\* C13: when the target tree of a subpath has no "types" leaf anywhere, the stub's
\* types is the manifest's own types field when that is a (non-empty) string, and
\* the stub has no types otherwise; when the tree has a "types" leaf, the stub's
\* types comes from the tree, never from the manifest's field.
C13_PackageTypesFallback ==
  Planned =>
    \A i \in 1..Len(tasks) :
      LET t      == tasks[i]
          leaves == TypesLeaves(Get(Expanded, t.key))
      IN t.stub # <<>> =>
           IF leaves = {}
             THEN IF IsString(pkg.types) /\ pkg.types.s # ""
                    THEN TypesPointAt(t, pkg.types.s)
                  ELSE t.stub[1].types = None
           ELSE (IsString(pkg.types) /\ pkg.types.s # "") => \E l \in leaves : TypesPointAt(t, l)

\* C14: a call of generatePackageJsonRedirects that follows a completed call, same
\* manifest and preference and nothing else touching the filesystem in between,
\* leaves the filesystem as it found it (as the call before left it).
C14_RerunIdempotent ==
  (pc = "done" /\ run > 1) => disk = diskAtStart

\* writeRedirectStubs has looked at task i (passed it over, written it, or failed on it)
Attempted(i) == i < cursor \/ (i = cursor /\ pc = "failed")

\* writeRedirectStubs has returned or rejected
Settled == pc \in {"done", "failed"}

\* C15: a task whose mkdir or writeFile fails does not end the batch: when
\* writeRedirectStubs settles, with or without failures, every task of the batch has
\* been attempted.
C15_FailuresCollected ==
  Settled => \A i \in 1..Len(tasks) : Attempted(i)

\* the task writeRedirectStubs is about to handle has a stub to write and a file
\* (not a directory) lies at its stub directory
AtCollision ==
  /\ pc = "planned" /\ cursor <= Len(tasks)
  /\ tasks[cursor].stub # <<>>
  /\ tasks[cursor].stubDir \in DOMAIN disk
  /\ disk[tasks[cursor].stubDir].kind = "file"

\* C16: when a file that is no directory lies at a task's stub directory, handling
\* that task writes nothing and changes nothing on the filesystem (the file stays as
\* it is), raises no error, warns, and the loop goes on to the next task.
C16_CollisionSkipped ==
  [][AtCollision =>
       /\ disk' = disk
       /\ pc' = "planned"
       /\ cursor' = cursor + 1
       /\ warned' = warned \cup {tasks[cursor].stubDir}
       /\ tasks' = tasks]_vars

\* a batch came to its end with the occupied path as it was, its task reported, and
\* a later task's stub written
C16_Witness_LaterWritten ==
  /\ pc = "done"
  /\ \E i, j \in 1..Len(tasks) :
       /\ i < j
       /\ tasks[i].stubDir \in warned
       /\ disk[tasks[i].stubDir] = File("occupied")
       /\ tasks[i].stubJsonPath \notin DOMAIN disk
       /\ tasks[j].stub # <<>>
       /\ tasks[j].stubJsonPath \in DOMAIN disk
       /\ disk[tasks[j].stubJsonPath] = File(StubJsonText(tasks[j].stub[1]))

MultiStar(x) == Len(Split(x, "*")) > 2

\* entry i of the normalised exports map is a wildcard entry with more than one "*"
\* in its key or in a string leaf of its target
Unsupported(i) ==
  /\ Includes(Normalized.c[i].k, "*")
  /\ \/ MultiStar(Normalized.c[i].k)
     \/ \E x \in StringLeaves(Normalized.c[i].v) : MultiStar(x)

\* the keys without "*" of an exports map
ConcreteKeys(exp) == {exp.c[j].k : j \in {j \in 1..Len(exp.c) : ~Includes(exp.c[j].k, "*")}}

\* C19: a wildcard entry with more than one "*" in its key or in a string leaf of its
\* target is not expanded: in a manifest whose wildcard entries are all of that kind,
\* the expanded manifest has no concrete key and the plan no task other than those of
\* the manifest's own keys without "*".
C19_MultiStarNotExpanded ==
  (/\ Planned /\ Normalized # Null
   /\ \A i \in 1..Len(Normalized.c) : Includes(Normalized.c[i].k, "*") => Unsupported(i)) =>
    /\ ConcreteKeys(Expanded) \subseteq ConcreteKeys(Normalized)
    /\ \A i \in 1..Len(tasks) : tasks[i].key \in ConcreteKeys(Normalized)

\* C20: every key without "*" of the normalised exports map is mapped by the expanded
\* map to its own target, whatever wildcard keys stand beside it and whatever tokens
\* they find, also when one of them expands to that very key.
C20_ExactKeysUntouched ==
  (Planned /\ Normalized # Null) =>
    \A i \in 1..Len(Normalized.c) :
      ~Includes(Normalized.c[i].k, "*") =>
        /\ HasKey(Expanded, Normalized.c[i].k)
        /\ Get(Expanded, Normalized.c[i].k) = Normalized.c[i].v

\* C18: with noEmit or dry set, a worker whose build succeeds reports 'check-end',
\* no worker ever reports 'build-end' or copies the cache directory to the output
\* directory, and the main thread never sends 'copy-start' to any worker, whatever
\* buildStart, writeBundle and watchChange calls are made.
C18_CheckerModeNeverCopies ==
  (options.noEmit \/ options.dry) =>
    \A w \in WorkerIds :
      /\ workers[w].built = "ok" => workers[w].posted = "check-end"
      /\ workers[w].posted # "build-end"
      /\ workers[w].st \notin {"waiting", "copying"}
      /\ ~workers[w].copied
      /\ workers[w].sent = 0 /\ workers[w].inbox = 0

\* a dry run has been checked, its 'check-end' has reached buildStart, writeBundle
\* has been called for it and the worker has gone
C18_Witness_DryRunChecked ==
  /\ options.dry /\ ~options.noEmit
  /\ \E w \in WorkerIds :
       /\ workers[w].posted = "check-end" /\ workers[w].wbCalled
       /\ workers[w].st = "exited" /\ workers[w].events = <<>>
  /\ hook = NoHook

\* C17: whenever a run's worker has completed its build with success (declarations
\* emitted or checker mode) and the bundler has called writeBundle for that run (no
\* file change reported meanwhile), afterBuild is eventually invoked for it, and
\* never more than once.
C17_AfterBuildOnce ==
  \A w \in WorkerIds :
    /\ (workers[w].built = "ok" /\ workers[w].wbCalled /\ bundler.changes = 0)
         ~> (workers[w].afterCalls = 1)
    /\ [](workers[w].afterCalls <= 1)

\* the conditions of the map e under which the runtime path lies
ConditionsOf(e, path) ==
  {e.c[i].k : i \in {j \in 1..Len(e.c) : e.c[j].k # "types" /\ path \in RuntimeLeaves(e.c[j].v)}}

\* C21: when the condition of an entry's conditional map under which main was found
\* is a map with a "types" string of its own, selectTargets returns that string as
\* types, not the "types" of another condition of the same map (maps with
\* conditions only, no "types" key at their top).
C21_TypesOfChosenCondition ==
  Planned =>
    \A i \in 1..Len(Expanded.c) :
      LET e   == Expanded.c[i].v
          sel == selectTargets(e, OrderOfRun, RootTypesOfRun)
      IN (isPlainObject(e) /\ ~HasKey(e, "types") /\ sel.main # None) =>
           \A c \in ConditionsOf(e, sel.main[1]) :
             (/\ ConditionsOf(e, sel.main[1]) = {c}
              /\ isPlainObject(Get(e, c))
              /\ IsString(Get(Get(e, c), "types"))) =>
               sel.types = Some(Get(Get(e, c), "types").s)

\* the runtime path one element of a list yields by itself
ElementMain(el) == selectTargets(el, OrderOfRun, None).main

\* C22: for a list target the elements are tried left to right and the first that
\* yields a non-empty path gives main; elements that yield nothing or the empty
\* string are passed over for a later one.
C22_ListFirstNonEmpty ==
  Planned =>
    \A i \in 1..Len(Expanded.c) :
      LET e    == Expanded.c[i].v
          hits == {j \in 1..Len(e.c) : ElementMain(e.c[j].v) \notin {None, Some("")}}
      IN (IsArray(e) /\ hits # {}) =>
           selectTargets(e, OrderOfRun, RootTypesOfRun).main = ElementMain(e.c[Min(hits)].v)

\* the trees that differ from t only in the order of the keys of their maps
RECURSIVE Reorderings(_)
Reorderings(t) ==
  IF (IsArray(t) \/ isPlainObject(t)) /\ Len(t.c) > 0
    THEN LET n     == Len(t.c)
             kids  == {f \in [1..n -> UNION {Reorderings(t.c[i].v) : i \in 1..n}] :
                         \A i \in 1..n : f[i] \in Reorderings(t.c[i].v)}
             perms == IF IsArray(t) THEN {[i \in 1..n |-> i]} ELSE Permutations(1..n)
         IN {[t EXCEPT !.c = [i \in 1..n |-> KV(t.c[p[i]].k, f[p[i]])]] : p \in perms, f \in kids}
  ELSE {t}

\* C29: main and types do not depend on the order in which the keys of conditional
\* maps are written: every reordering of the keys of an entry's maps (list elements
\* left in place) gives the same selection, for either preference.
C29_KeyOrderIrrelevant ==
  Planned =>
    \A i \in 1..Len(Expanded.c) :
      \A t \in Reorderings(Expanded.c[i].v) :
        \A pref \in Prefers :
          selectTargets(t, BranchOrderOf(pref), RootTypesOfRun)
            = selectTargets(Expanded.c[i].v, BranchOrderOf(pref), RootTypesOfRun)

\* two conditions outside the branch order, written in other than name order, the
\* first by name selected
C29_Witness_RemainingKeys ==
  /\ Planned
  /\ \E i \in 1..Len(Expanded.c) :
       LET e == Expanded.c[i].v
       IN /\ isPlainObject(e) /\ Keys(e) = <<"deno", "bun">>
          /\ IsString(Get(e, "deno")) /\ IsString(Get(e, "bun"))
          /\ selectTargets(e, OrderOfRun, RootTypesOfRun).main = Some(Get(e, "bun").s)
          /\ Cardinality(Reorderings(e)) = 2

\* C30: a stub planned for a subpath that wildcard expansion produced (patterns with
\* one "*", file names without "$") has a main that names a file on disk, also when
\* the token was found through another leaf of the target, and neither its main nor
\* its types holds a "*".
C30_ExpandedMainOnDisk ==
  (/\ Planned /\ Normalized # Null
   /\ \A i \in 1..Len(Normalized.c) : ~Unsupported(i)
   /\ \A q \in DOMAIN disk : ~Includes(q, "$")) =>
    \A i \in 1..Len(tasks) :
      (tasks[i].stub # <<>> /\ tasks[i].key \notin ConcreteKeys(Normalized)) =>
        /\ stat(disk, resolve(tasks[i].stubDir, tasks[i].stub[1].main)) = "file"
        /\ ~Includes(tasks[i].stub[1].main, "*")
        /\ tasks[i].stub[1].types # None => ~Includes(tasks[i].stub[1].types[1], "*")

\* C25: between two watchChange updates (or since dts() was called) buildStart
\* creates at most one worker, whatever the number of calls, and no worker is sent
\* more than one 'copy-start'; 'create' and 'delete' events re-arm nothing
C25_OncePerUpdate ==
  /\ \A w1, w2 \in WorkerIds :
       (workers[w1].st # "absent" /\ workers[w2].st # "absent" /\ w1 # w2)
         => workers[w1].epoch # workers[w2].epoch
  /\ \A w \in WorkerIds : workers[w].sent <= 1

\* three hook calls and a 'create' or 'delete' event later: one worker, one 'copy-start'
C25_Witness_CallsRepeated ==
  /\ bundler.calls >= 3 /\ bundler.changes = 1 /\ bundler.updates = 0
  /\ Created = 1
  /\ workers[1].sent = 1

\* the worker has taken the 'copy-start' message off its port
Received(w) == workers[w].sent > workers[w].inbox

\* the worker's exit has been handed to the main thread's listeners
ExitSeen(w) ==
  /\ workers[w].st = "exited"
  /\ \A i \in 1..Len(workers[w].events) : workers[w].events[i] # "exit"

\* what has happened to worker w so far happened in the protocol's order
InProtocolOrder(w) ==
  /\ workers[w].posted = "build-end" => workers[w].built = "ok"
  /\ workers[w].sent > 0 => \E v \in WorkerIds : workers[v].posted = "build-end"
  /\ Received(w) => workers[w].posted = "build-end"
  /\ (workers[w].st = "copying" \/ workers[w].copied) => Received(w)
  /\ workers[w].after # "no" => ExitSeen(w)

\* this step resolves the promise of the writeBundle call that waits for worker w
ResolvesWriteBundle(w) ==
  /\ hook = [name |-> "writeBundle", w |-> w]
  /\ hook' = NoHook
  /\ workers'[w].listeners = workers[w].listeners

C27_WriteBundleSettles ==
  \A w \in WorkerIds :
    (hook = [name |-> "writeBundle", w |-> w] /\ workers[w].st = "exited"
       /\ workers[w].after = "failed")
      ~> (hook = NoHook)

\* C28: at most one worker of the instance is alive at any time, and a worker that
\* is sent 'copy-start' has reported 'build-end'
Alive(w) == workers[w].st \in {"building", "waiting", "copying"}

C28_OneWorkerAlive ==
  /\ Cardinality({w \in WorkerIds : Alive(w)}) <= 1
  /\ \A w \in WorkerIds : workers[w].sent > 0 => workers[w].posted = "build-end"

\* C23: when the expansion of a redirect generation lists the emission directories,
\* no renameDeclarationFiles is in progress, neither the instance's own nor the
\* other instance's
C23_NoExpansionDuringRename ==
  \A k \in Kinds : post[k].listed # <<>> => post[k].during = {}

\* C24: a module-type query answers from the manifest at the root it was given
C24_ManifestOfGivenRoot ==
  answer # NoAnswer => answer.esm = (manifests[answer.rootDir].type = "module")

====
